---------------------------- MODULE Spec2Model ----------------------------
(***************************************************************************)
(* Model of webreg_scraper (crates/webreg, crates/basicauth).              *)
(*                                                                         *)
(* Spec      : the tracker task (run_tracker, try_login,                   *)
(*             login_with_cookies), one term worker per configured term    *)
(*             (track_webreg_enrollment), the interrupt handler            *)
(*             (shutdown_signal) and the end of main.                      *)
(* FairSpec  : Spec with the fairness the tokio scheduler gives: a task    *)
(*             whose pending request or sleep has completed is polled.     *)
(* SpecKeys  : the key store (basicauth::AuthManager).                     *)
(*                                                                         *)
(* A step of a task runs from one .await to the next: the code between two *)
(* awaits makes no blocking call, so it is one action.  The one exception  *)
(* is the stop check at the top of the worker's inner loop, which is kept  *)
(* apart from the request that follows it, because the interrupt handler   *)
(* runs on another thread and may set stop_flag between the two.           *)
(***************************************************************************)
EXTENDS Integers, Sequences, FiniteSets, TLC

(***************************************************************************)
(* Program constants (crates/webreg/src/scraper/tracker.rs).               *)
(***************************************************************************)
MAX_NUM_SEARCH_REQUESTS == 12
MAX_NUM_LOGIN_FAILURES == 30
\* tracker.rs 31, in seconds
BASE_DELAY_FOR_SESSION_COOKIE == 8
MAX_NUM_REGISTER == 25
\* crates/basicauth/src/lib.rs: Duration::days(365).
KEY_LIFETIME_DAYS == 365

(***************************************************************************)
(* Bounds of the model.                                                    *)
(***************************************************************************)
\* The longest search_query list of a configured term.
MaxQueries == 2
\* The most courses one search_courses call returns.
MaxResultsPerCall == 1
\* The most rows the key table holds.
MaxRows == 2

\* The most backoff sleeps followed when try_login's sleeps are recorded.
MaxSleeps == 5

(***************************************************************************)
(* Configuration (ConfigScraper.wrapper_data): two terms; the first has    *)
(* MaxQueries search queries, the second has one.                          *)
(***************************************************************************)
all_terms == {"FA22", "WI23"}

search_query_len(t) == IF t = "FA22" THEN MaxQueries ELSE 1

\* TermInfo.should_save (saveDataToFile): set for the first term only.  No
\* function of the tracker reads the field.
should_save(t) == t = "FA22"

VARIABLES
    \* WrapperState
    stop_flag,      \* WrapperState.stop_flag
    is_running,     \* WrapperState.is_running
    cookies,        \* the cookies of WrapperState.wrapper and of .c_wrapper
    \* run_tracker
    tpc,            \* where the tracker task is
    exit_why,       \* why the tracker task ended ("none" while it runs)
    loop_stop,      \* current_loop_stop_flag of the current phase
    \* try_login / login_with_cookies
    lpc,            \* where Session Recovery is ("idle" outside it)
    num_failures,   \* try_login's num_failures
    num_tries,      \* login_with_cookies' num_tries
    vleft,          \* terms login_with_cookies has still to validate
    login_log,      \* try_login's sleeps and cookie answers, when recorded
    \* track_webreg_enrollment, one future per term
    wpc,            \* where each worker is
    qi,             \* index of the search query in flight
    nres,           \* results gathered / results left to poll
    fail_count,     \* the worker's fail_count
    exit_reason,    \* why a worker returned
    search_err,     \* a search_courses call of the current round errored
    last_enroll,    \* the answer of get_enrollment_count being slept on
    after_stop_search,  \* search_courses calls started with stop_flag set
    after_stop_enroll,  \* get_enrollment_count calls started with stop_flag set
    \* the disk
    csv,            \* per term: a CSV file of the term has been created
    \* main / shutdown_signal
    spc,            \* where shutdown_signal is
    exited,         \* main has returned
    \* basicauth::AuthManager
    db,             \* the rows of the key table, in insertion order
    now,            \* Utc::now(), in ticks
    klast,          \* the last key-store operation and what it returned
    \* StatTracker (of one term)
    recent_requests,    \* StatTracker.recent_requests
    num_requests,       \* StatTracker.num_requests
    total_time_spent,   \* StatTracker.total_time_spent
    apc,            \* where the add_stat call under way is ("idle": none)
    time_of_req,    \* the argument of the add_stat call under way
    samples,        \* the arguments of the add_stat calls that returned, in order
    timing,         \* get_timing_stats: where the call is and what it has loaded
    \* the HTTP gateway
    auth_feature,   \* the crate is built with the feature "auth"
    req,            \* the request followed
    rpc,            \* where the request is
    passed,         \* the layers that have passed the request on, in order
    resp,           \* the response to the request
    ext,            \* the extensions of the request
    calls,          \* the handler and portal calls made for the request, in order
    fetched,        \* what get_schedule returned to post_drop_section
    \* one CSV data row of a term worker
    row_section,    \* the CourseSection the row is written for
    row_time,       \* get_epoch_time() of the row
    row_line,       \* what writeln! has written (<<>>: nothing yet)
    \* conversions of the server (server/types.rs)
    api_error,      \* the ApiErrorType a handler returns
    api_response,   \* the response it is turned into
    body_days,      \* the days of a BodySearchType::SearchAdvanced
    search_days     \* the days of the SearchRequestBuilder made from it

wrapper_vars == <<stop_flag, is_running>>
tracker_vars == <<tpc, exit_why, loop_stop>>
login_vars == <<lpc, num_failures, num_tries, vleft>>
worker_vars == <<wpc, qi, nres, fail_count, exit_reason, search_err, last_enroll,
                 after_stop_search, after_stop_enroll>>
main_vars == <<spc, exited>>
tracker_side == <<wrapper_vars, tracker_vars, login_vars, login_log, worker_vars,
                  csv, main_vars>>
key_vars == <<db, now, klast>>
stats_vars == <<recent_requests, num_requests, total_time_spent, apc, time_of_req,
                samples, timing>>
server_vars == <<auth_feature, req, rpc, passed, resp, ext, calls, fetched>>
row_vars == <<row_section, row_time, row_line>>
convert_vars == <<api_error, api_response, body_days, search_days>>
\* What neither the tracker nor the gateway touches.
beside_gateway == <<key_vars, stats_vars, row_vars, convert_vars>>
\* What the tracker task, the workers and main leave alone.
beside_tracker == <<key_vars, stats_vars, server_vars, row_vars, convert_vars>>
outside_tracker == <<beside_tracker, login_log, cookies>>
\* What the key store leaves alone.
outside_keys == <<tracker_side, cookies, stats_vars, server_vars, row_vars,
                  convert_vars>>
\* What the StatTracker leaves alone.
outside_stats == <<tracker_side, cookies, key_vars, server_vars, row_vars,
                   convert_vars>>
\* What the handlers of the gateway leave alone, the wrappers' cookies apart.
outside_handler == <<tracker_side, beside_gateway>>
\* What the layers of the gateway leave alone.
outside_gateway == <<outside_handler, cookies>>
\* What the writing of a CSV row leaves alone.
outside_row == <<tracker_side, cookies, key_vars, stats_vars, server_vars,
                 convert_vars>>
\* What the conversions of the server leave alone.
outside_convert == <<tracker_side, cookies, key_vars, stats_vars, server_vars,
                     row_vars>>

(***************************************************************************)
(* WrapperState accessors (crates/webreg/src/types.rs).                    *)
(***************************************************************************)
should_stop == stop_flag

set_stop_flag(stop_status) == stop_flag' = stop_status

(***************************************************************************)
(* GET /health (server/endpoints/status.rs): a read of is_running.         *)
(***************************************************************************)
get_health == [status |-> 200, api |-> is_running]

(***************************************************************************)
(* Helpers: values of the per-worker variables.                            *)
(***************************************************************************)
Zeros == [t \in all_terms |-> 0]

Nones == [t \in all_terms |-> "none"]

NoWorkers ==
    /\ wpc' = [t \in all_terms |-> "unspawned"]
    /\ qi' = Zeros
    /\ nres' = Zeros
    /\ fail_count' = Zeros
    /\ exit_reason' = Nones
    /\ search_err' = [t \in all_terms |-> FALSE]
    /\ last_enroll' = Nones
    /\ after_stop_search' = Zeros
    /\ after_stop_enroll' = Zeros

LoginIdle ==
    /\ lpc' = "idle"
    /\ num_failures' = 0
    /\ num_tries' = 0
    /\ vleft' = {}

(***************************************************************************)
(* run_tracker (tracker.rs 41-89).                                         *)
(***************************************************************************)
\* Mutant of StartPhase: the store of true into is_running is left out.
StartPhaseNoFlag ==
    /\ loop_stop' = FALSE
    /\ tpc' = "phase"
    /\ exit_why' = "none"
    /\ wpc' = [t \in all_terms |-> "spawned"]
    /\ qi' = Zeros
    /\ nres' = Zeros
    /\ fail_count' = Zeros
    /\ exit_reason' = Nones
    /\ search_err' = [t \in all_terms |-> FALSE]
    /\ last_enroll' = Nones
    /\ after_stop_search' = Zeros
    /\ after_stop_enroll' = Zeros
    /\ LoginIdle
    /\ UNCHANGED <<stop_flag, is_running, csv, main_vars>>

\* 47-59: a phase starts: is_running is stored true, a fresh loop-local flag
\* is made and one future per term is pushed.
StartPhase ==
    /\ is_running' = TRUE
    /\ loop_stop' = FALSE
    /\ tpc' = "phase"
    /\ exit_why' = "none"
    /\ wpc' = [t \in all_terms |-> "spawned"]
    /\ qi' = Zeros
    /\ nres' = Zeros
    /\ fail_count' = Zeros
    /\ exit_reason' = Nones
    /\ search_err' = [t \in all_terms |-> FALSE]
    /\ last_enroll' = Nones
    /\ after_stop_search' = Zeros
    /\ after_stop_enroll' = Zeros
    /\ LoginIdle
    /\ UNCHANGED <<stop_flag, csv, main_vars>>

\* Mutant of TrackerQuits: the tracker clears stop_flag as it returns.
TrackerQuitsClearsStop(why) ==
    /\ tpc' = "done"
    /\ exit_why' = why
    /\ stop_flag' = FALSE
    /\ LoginIdle
    /\ UNCHANGED <<is_running, loop_stop, worker_vars, csv, main_vars>>

\* 43-44, 72-73, 81-88: run_tracker returns.
TrackerQuits(why) ==
    /\ tpc' = "done"
    /\ exit_why' = why
    /\ LoginIdle
    /\ UNCHANGED <<stop_flag, is_running, loop_stop, worker_vars, csv, main_vars>>

\* Mutant of try_login_returns: is_running is stored true before the result
\* of try_login is looked at.
try_login_returns_flag_first(ok) ==
    IF ok
    THEN StartPhase
    ELSE /\ tpc' = "done"
         /\ exit_why' = IF tpc = "init_login" THEN "init_login_failed"
                                              ELSE "relogin_failed"
         /\ is_running' = TRUE
         /\ LoginIdle
         /\ UNCHANGED <<stop_flag, loop_stop, worker_vars, csv, main_vars>>

\* Mutant of try_login_returns: a phase starts whatever try_login returned.
try_login_returns_unread(ok) == StartPhase

\* 42-45 and 77-82: what run_tracker does with try_login's result.
try_login_returns(ok) ==
    IF ok
    THEN StartPhase
    ELSE TrackerQuits(IF tpc = "init_login" THEN "init_login_failed"
                                             ELSE "relogin_failed")

(***************************************************************************)
(* try_login (tracker.rs 278-340) and login_with_cookies (354-410).        *)
(***************************************************************************)
\* Mutant of try_login_loop: the loop gives up one failure earlier.
try_login_loop_one_short(nf) ==
    IF nf < MAX_NUM_LOGIN_FAILURES
    THEN /\ lpc' = "backoff"
         /\ num_failures' = nf
         /\ num_tries' = 0
         /\ vleft' = {}
         /\ UNCHANGED <<wrapper_vars, tracker_vars, worker_vars, csv, main_vars>>
    ELSE try_login_returns(FALSE)

\* 286: the head of try_login's while loop, reached with num_failures = nf.
try_login_loop(nf) ==
    IF nf <= MAX_NUM_LOGIN_FAILURES
    THEN /\ lpc' = "backoff"
         /\ num_failures' = nf
         /\ num_tries' = 0
         /\ vleft' = {}
         /\ UNCHANGED <<wrapper_vars, tracker_vars, worker_vars, csv, main_vars>>
    ELSE try_login_returns(FALSE)

\* 409 and 330-336: login_with_cookies returns num_tries < MAX_NUM_REGISTER.
login_with_cookies_returns(nt) ==
    IF nt < MAX_NUM_REGISTER
    THEN try_login_returns(TRUE)
    ELSE try_login_loop(num_failures + 1)

\* 358: the head of login_with_cookies' while loop, reached with num_tries = nt.
register_loop(nt) ==
    IF nt <= MAX_NUM_REGISTER
    THEN /\ lpc' = "reg_sleep"
         /\ num_tries' = nt
         /\ vleft' = {}
         /\ UNCHANGED <<num_failures, wrapper_vars, tracker_vars, worker_vars,
                        csv, main_vars>>
    ELSE login_with_cookies_returns(nt)

\* 291: Duration::from_secs_f64, the unit the delays are kept in
MicrosPerSecond == 1000000

RECURSIVE delay_time(_)

\* Mutant of delay_time: the delay does not grow with the failures.
delay_time_flat(n) == BASE_DELAY_FOR_SESSION_COOKIE * MicrosPerSecond

\* 287: 1.2_f64.powi(num_failures) * BASE_DELAY_FOR_SESSION_COOKIE, in whole
\* microseconds (the product is a whole number of them up to
\* num_failures = 6 and is truncated from 7 on).
delay_time(n) ==
    IF n = 0
    THEN BASE_DELAY_FOR_SESSION_COOKIE * MicrosPerSecond
    ELSE delay_time(n - 1) + delay_time(n - 1) \div 5

NoLog == [on |-> FALSE, sleeps |-> <<>>, answers |-> <<>>]

\* 287-303: the backoff sleep of delay_time(num_failures) ends; stop_flag is
\* checked, then the cookie server is asked for cookies.
BackoffWake ==
    /\ ~exited
    /\ UNCHANGED <<beside_tracker, cookies>>
    /\ lpc = "backoff"
    /\ login_log.on => Len(login_log.sleeps) < MaxSleeps
    /\ login_log' = IF login_log.on
                    THEN [login_log EXCEPT
                              !.sleeps = Append(@, delay_time(num_failures))]
                    ELSE login_log
    /\ IF should_stop
       THEN try_login_returns(FALSE)
       ELSE /\ lpc' = "cookie_req"
            /\ UNCHANGED <<num_failures, num_tries, vleft, wrapper_vars,
                           tracker_vars, worker_vars, csv, main_vars>>

CookieOutcomes == {"send_err", "text_err", "no_cookie", "cookie"}

\* 326: json["cookie"], the cookies the cookie server gives
CookieServerCookies == "json[cookie]"

\* WebRegWrapper::set_cookies on the wrapper w (355: state.wrapper)
set_cookies(w, c) == [cookies EXCEPT ![w] = c]

\* 299-330 and 355: the cookie server's answer; cookies it gives are set on
\* the polling wrapper as login_with_cookies starts.

CookieResponse(o) ==
    /\ ~exited
    /\ UNCHANGED beside_tracker
    /\ lpc = "cookie_req"
    /\ cookies' = IF o = "cookie"
                  THEN set_cookies("wrapper", CookieServerCookies)
                  ELSE cookies
    /\ login_log' = IF login_log.on
                    THEN [login_log EXCEPT !.answers = Append(@, o)]
                    ELSE login_log
    /\ CASE o \in {"send_err", "text_err"} -> try_login_loop(num_failures + 1)
         [] o = "no_cookie" -> try_login_loop(num_failures)
         [] o = "cookie" -> register_loop(0)

\* 359-362: GENERAL_DELAY ends; register_all_terms is called.
RegSleepWake ==
    /\ ~exited
    /\ UNCHANGED outside_tracker
    /\ lpc = "reg_sleep"
    /\ lpc' = "register"
    /\ UNCHANGED <<num_failures, num_tries, vleft, wrapper_vars, tracker_vars,
                   worker_vars, csv, main_vars>>

\* 362-382: register_all_terms answers; on success the validation search of
\* the first term is sent.
RegisterResponse(ok) ==
    /\ ~exited
    /\ UNCHANGED outside_tracker
    /\ lpc = "register"
    /\ IF ok
       THEN /\ lpc' = "validate"
            /\ vleft' = all_terms
            /\ UNCHANGED <<num_failures, num_tries, wrapper_vars, tracker_vars,
                           worker_vars, csv, main_vars>>
       ELSE register_loop(num_tries + 1)

SearchOutcomes == {"err", "empty", "some"}

\* Mutant of ValidateResponse: an empty result passes the validation of its
\* term.
ValidateResponseEmptyPasses(t, o) ==
    /\ ~exited
    /\ UNCHANGED outside_tracker
    /\ lpc = "validate"
    /\ t \in vleft
    /\ CASE o = "err" -> register_loop(num_tries + 1)
         [] o \in {"empty", "some"} ->
              IF vleft = {t}
              THEN login_with_cookies_returns(num_tries)
              ELSE /\ vleft' = vleft \ {t}
                   /\ UNCHANGED <<lpc, num_failures, num_tries, wrapper_vars,
                                  tracker_vars, worker_vars, csv, main_vars>>

\* 376-406: the validation search of term t answers.
ValidateResponse(t, o) ==
    /\ ~exited
    /\ UNCHANGED outside_tracker
    /\ lpc = "validate"
    /\ t \in vleft
    /\ CASE o = "err" -> register_loop(num_tries + 1)
         [] o = "empty" -> register_loop(num_tries)
         [] o = "some" ->
              IF vleft = {t}
              THEN login_with_cookies_returns(num_tries)
              ELSE /\ vleft' = vleft \ {t}
                   /\ UNCHANGED <<lpc, num_failures, num_tries, wrapper_vars,
                                  tracker_vars, worker_vars, csv, main_vars>>

(***************************************************************************)
(* track_webreg_enrollment (tracker.rs 101-267).  The worker futures are   *)
(* polled by the tracker task itself (FuturesUnordered), so what follows   *)
(* a worker's return in run_tracker (63-82) runs in the same step, and a   *)
(* panic of a worker is a panic of the tracker task.                       *)
(***************************************************************************)
\* Mutant of PhaseEnds: the store of false into is_running is left out.
PhaseEndsKeepsRunning ==
    /\ loop_stop' = TRUE
    /\ NoWorkers
    /\ IF should_stop
       THEN /\ tpc' = "done"
            /\ exit_why' = "stopped"
            /\ LoginIdle
       ELSE /\ tpc' = "relogin"
            /\ exit_why' = "none"
            /\ lpc' = "backoff"
            /\ num_failures' = 0
            /\ num_tries' = 0
            /\ vleft' = {}
    /\ UNCHANGED <<stop_flag, is_running, main_vars>>

\* 66-82: the last future of the phase has completed.
PhaseEnds ==
    /\ is_running' = FALSE
    /\ loop_stop' = TRUE
    /\ NoWorkers
    /\ IF should_stop
       THEN /\ tpc' = "done"
            /\ exit_why' = "stopped"
            /\ LoginIdle
       ELSE /\ tpc' = "relogin"
            /\ exit_why' = "none"
            /\ lpc' = "backoff"
            /\ num_failures' = 0
            /\ num_tries' = 0
            /\ vleft' = {}
    /\ UNCHANGED <<stop_flag, main_vars>>

\* 119, 127, 135, 227, 260: an unwrap on a failed file operation panics; the
\* tracker task unwinds with the remaining futures, is_running is left as it is.
TrackerPanics(t) ==
    /\ tpc' = "dead"
    /\ exit_why' = "panic"
    /\ wpc' = [u \in all_terms |->
                 IF u = t THEN "panicked"
                 ELSE IF wpc[u] = "returned" THEN "returned" ELSE "dropped"]
    /\ qi' = Zeros
    /\ nres' = Zeros
    /\ fail_count' = [u \in all_terms |->
                        IF wpc[u] = "returned" THEN fail_count[u] ELSE 0]
    /\ search_err' = [u \in all_terms |-> wpc[u] = "returned" /\ search_err[u]]
    /\ last_enroll' = Nones
    /\ UNCHANGED <<exit_reason, after_stop_search, after_stop_enroll, loop_stop,
                   wrapper_vars, login_vars, main_vars>>

\* Mutant of WorkerReturns: Session Recovery starts at the first return of
\* a worker, the other futures still running.
WorkerReturnsNoDrain(t, why, io_ok) ==
    IF ~io_ok
    THEN TrackerPanics(t)
    ELSE IF \A u \in all_terms \ {t} : wpc[u] = "returned"
    THEN PhaseEnds
    ELSE /\ wpc' = [wpc EXCEPT ![t] = "returned"]
         /\ exit_reason' = [exit_reason EXCEPT ![t] = why]
         /\ qi' = [qi EXCEPT ![t] = 0]
         /\ nres' = [nres EXCEPT ![t] = 0]
         /\ fail_count' = [fail_count EXCEPT ![t] = IF why = "fail" THEN @ ELSE 0]
         /\ search_err' = [search_err EXCEPT ![t] = why = "empty" /\ @]
         /\ last_enroll' = [last_enroll EXCEPT ![t] = "none"]
         /\ loop_stop' = TRUE
         /\ lpc' = "backoff"
         /\ UNCHANGED <<after_stop_search, after_stop_enroll, tpc, exit_why,
                        wrapper_vars, num_failures, num_tries, vleft, main_vars>>

\* 251-267 and 63-69: worker t leaves 'main, flushes and returns; run_tracker
\* raises the loop-local flag and, when no future is left, ends the phase.
WorkerReturns(t, why, io_ok) ==
    IF ~io_ok
    THEN TrackerPanics(t)
    ELSE IF \A u \in all_terms \ {t} : wpc[u] = "returned"
    THEN PhaseEnds
    ELSE /\ wpc' = [wpc EXCEPT ![t] = "returned"]
         /\ exit_reason' = [exit_reason EXCEPT ![t] = why]
         /\ qi' = [qi EXCEPT ![t] = 0]
         /\ nres' = [nres EXCEPT ![t] = 0]
         /\ fail_count' = [fail_count EXCEPT ![t] = IF why = "fail" THEN @ ELSE 0]
         /\ search_err' = [search_err EXCEPT ![t] = why = "empty" /\ @]
         /\ last_enroll' = [last_enroll EXCEPT ![t] = "none"]
         /\ loop_stop' = TRUE
         /\ UNCHANGED <<after_stop_search, after_stop_enroll, tpc, exit_why,
                        wrapper_vars, login_vars, main_vars>>

\* 139-145: the search_courses call of query number q is sent.
SearchStarts(t, q) ==
    /\ wpc' = [wpc EXCEPT ![t] = "search"]
    /\ qi' = [qi EXCEPT ![t] = q]
    /\ nres' = [nres EXCEPT ![t] = IF q = 1 THEN 0 ELSE @]
    /\ search_err' = [search_err EXCEPT ![t] = IF q = 1 THEN FALSE ELSE @]
    /\ last_enroll' = [last_enroll EXCEPT ![t] = "none"]
    /\ after_stop_search' =
           [after_stop_search EXCEPT ![t] = IF stop_flag THEN @ + 1 ELSE @]
    /\ UNCHANGED <<fail_count, exit_reason, after_stop_enroll, tracker_vars,
                   wrapper_vars, login_vars, main_vars>>

\* 134-138: the head of 'main: flush, then the first search query, or no
\* query at all and an empty result (155-158).
RoundTop(t, io_ok) ==
    IF ~io_ok
    THEN TrackerPanics(t)
    ELSE IF search_query_len(t) = 0
    THEN WorkerReturns(t, "empty", io_ok)
    ELSE SearchStarts(t, 1)

\* Mutant of InnerTop: the global stop flag is not looked at.
InnerTopNoStop(t, io_ok) ==
    IF loop_stop
    THEN WorkerReturns(t, "stop", io_ok)
    ELSE IF fail_count[t] # 0 /\ fail_count[t] > MAX_NUM_SEARCH_REQUESTS
    THEN WorkerReturns(t, "fail", io_ok)
    ELSE /\ wpc' = [wpc EXCEPT ![t] = "checked"]
         /\ last_enroll' = [last_enroll EXCEPT ![t] = "none"]
         /\ UNCHANGED <<qi, nres, fail_count, exit_reason, search_err,
                        after_stop_search, after_stop_enroll, tracker_vars,
                        wrapper_vars, login_vars, main_vars>>

\* Mutant of InnerTop: the loop-local flag is not looked at.
InnerTopNoLoopStop(t, io_ok) ==
    IF should_stop
    THEN WorkerReturns(t, "stop", io_ok)
    ELSE IF fail_count[t] # 0 /\ fail_count[t] > MAX_NUM_SEARCH_REQUESTS
    THEN WorkerReturns(t, "fail", io_ok)
    ELSE /\ wpc' = [wpc EXCEPT ![t] = "checked"]
         /\ last_enroll' = [last_enroll EXCEPT ![t] = "none"]
         /\ UNCHANGED <<qi, nres, fail_count, exit_reason, search_err,
                        after_stop_search, after_stop_enroll, tracker_vars,
                        wrapper_vars, login_vars, main_vars>>

\* 166-179: the head of an inner iteration: the stop flags, then the
\* failure threshold.
InnerTop(t, io_ok) ==
    IF should_stop \/ loop_stop
    THEN WorkerReturns(t, "stop", io_ok)
    ELSE IF fail_count[t] # 0 /\ fail_count[t] > MAX_NUM_SEARCH_REQUESTS
    THEN WorkerReturns(t, "fail", io_ok)
    ELSE /\ wpc' = [wpc EXCEPT ![t] = "checked"]
         /\ last_enroll' = [last_enroll EXCEPT ![t] = "none"]
         /\ UNCHANGED <<qi, nres, fail_count, exit_reason, search_err,
                        after_stop_search, after_stop_enroll, tracker_vars,
                        wrapper_vars, login_vars, main_vars>>

\* 107-135: the first poll of the future: the CSV file is opened or created,
\* the header is written, and 'main is entered.
WorkerStart(t, opened, io_ok) ==
    /\ ~exited
    /\ UNCHANGED outside_tracker
    /\ tpc = "phase"
    /\ wpc[t] = "spawned"
    /\ IF opened
       THEN /\ csv' = [csv EXCEPT ![t] = TRUE]
            /\ RoundTop(t, io_ok)
       ELSE /\ csv' = csv
            /\ TrackerPanics(t)

SearchCounts == 0 .. MaxResultsPerCall

\* 145-149: search_courses answers with an error (taken as no result by
\* unwrap_or_default) or with k courses; the worker sleeps one second.
SearchResponse(t, ok, k) ==
    /\ ~exited
    /\ UNCHANGED outside_tracker
    /\ tpc = "phase"
    /\ wpc[t] = "search"
    /\ wpc' = [wpc EXCEPT ![t] = "search_sleep"]
    /\ nres' = [nres EXCEPT ![t] = IF ok THEN @ + k ELSE @]
    /\ search_err' = [search_err EXCEPT ![t] = @ \/ ~ok]
    /\ UNCHANGED <<qi, fail_count, exit_reason, last_enroll, after_stop_search,
                   after_stop_enroll, tracker_vars, wrapper_vars, login_vars,
                   csv, main_vars>>

\* 149-171: the one-second sleep ends: the next query is sent, or the round's
\* result is complete and is either empty (155-158) or iterated.
SearchSleepWake(t, io_ok) ==
    /\ ~exited
    /\ UNCHANGED outside_tracker
    /\ tpc = "phase"
    /\ wpc[t] = "search_sleep"
    /\ csv' = csv
    /\ IF qi[t] < search_query_len(t)
       THEN SearchStarts(t, qi[t] + 1)
       ELSE IF nres[t] = 0
       THEN WorkerReturns(t, "empty", io_ok)
       ELSE InnerTop(t, io_ok)

\* 182-189: get_enrollment_count is sent.
EnrollStarts(t) ==
    /\ ~exited
    /\ UNCHANGED outside_tracker
    /\ tpc = "phase"
    /\ wpc[t] = "checked"
    /\ wpc' = [wpc EXCEPT ![t] = "enroll"]
    /\ after_stop_enroll' =
           [after_stop_enroll EXCEPT ![t] = IF stop_flag THEN @ + 1 ELSE @]
    /\ UNCHANGED <<qi, nres, fail_count, exit_reason, search_err, last_enroll,
                   after_stop_search, tracker_vars, wrapper_vars, login_vars,
                   csv, main_vars>>

\* Mutant of fail_count_after: an answer with sections does not reset the count.
fail_count_after_no_reset(fc, o) == IF o = "some" THEN fc ELSE fc + 1

\* 191-240: the new value of fail_count after an answer.
fail_count_after(fc, o) == IF o = "some" THEN 0 ELSE fc + 1

\* 189-247: get_enrollment_count answers: an error, no section, or some
\* sections, whose rows are written; the worker sleeps for the cooldown.
EnrollResponse(t, o, io_ok) ==
    /\ ~exited
    /\ UNCHANGED outside_tracker
    /\ tpc = "phase"
    /\ wpc[t] = "enroll"
    /\ csv' = csv
    /\ IF o = "some" /\ ~io_ok
       THEN TrackerPanics(t)
       ELSE /\ fail_count' = [fail_count EXCEPT ![t] = fail_count_after(@, o)]
            /\ nres' = [nres EXCEPT ![t] = @ - 1]
            /\ wpc' = [wpc EXCEPT ![t] = "cooldown"]
            /\ last_enroll' = [last_enroll EXCEPT ![t] = o]
            /\ UNCHANGED <<qi, exit_reason, search_err, after_stop_search,
                           after_stop_enroll, tracker_vars, wrapper_vars,
                           login_vars, main_vars>>

\* 247, then 166 or 134: the cooldown ends: the next result, or the next round.
CooldownWake(t, io_ok) ==
    /\ ~exited
    /\ UNCHANGED outside_tracker
    /\ tpc = "phase"
    /\ wpc[t] = "cooldown"
    /\ csv' = csv
    /\ IF nres[t] > 0
       THEN InnerTop(t, io_ok)
       ELSE RoundTop(t, io_ok)

(***************************************************************************)
(* main and shutdown_signal (main.rs 78-101).                              *)
(***************************************************************************)
\* 91-98: the interrupt arrives: stop_flag is set, is_running is read.
CtrlC ==
    /\ ~exited
    /\ UNCHANGED outside_tracker
    /\ spc = "wait"
    /\ set_stop_flag(TRUE)
    /\ spc' = IF is_running THEN "poll" ELSE "done"
    /\ UNCHANGED <<is_running, exited, tracker_vars, login_vars, worker_vars, csv>>

\* 98-100: a one-second poll finds is_running false (one that finds it true
\* changes nothing).
PollRunning ==
    /\ ~exited
    /\ UNCHANGED outside_tracker
    /\ spc = "poll"
    /\ ~is_running
    /\ spc' = "done"
    /\ UNCHANGED <<exited, wrapper_vars, tracker_vars, login_vars, worker_vars, csv>>

\* 78-82: the server has shut down, main returns and the runtime is dropped.
MainReturns ==
    /\ ~exited
    /\ UNCHANGED outside_tracker
    /\ spc = "done"
    /\ exited' = TRUE
    /\ UNCHANGED <<spc, wrapper_vars, tracker_vars, login_vars, worker_vars, csv>>

(***************************************************************************)
(* The key store (crates/basicauth/src/lib.rs).  The SQL statements it     *)
(* includes (sql/*.sql) are modelled from the table the specification      *)
(* gives: one row per prefix, prefix the primary key.                      *)
(***************************************************************************)
\* Uuid::new_v4().to_string(): a string over hex digits and '-', never '#'.
Uuids == {<<"a">>, <<"b">>, <<"c">>}

Descs == {"NULL", "hello"}

\* A DateTime<Utc> is a count of ticks; chrono keeps nanoseconds, the model
\* keeps half seconds.
TicksPerSecond == 2

SecondsPerDay == 86400

\* chrono::Duration::days(d), in ticks.
Duration_days(d) == d * SecondsPerDay * TicksPerSecond

\* DateTime::timestamp(): the whole seconds of an instant.
timestamp(t) == t \div TicksPerSecond

\* The instants the clock is looked at: around the creation of a key and
\* around the end of the lifetime of a key created then.
Instants == {0, 1, Duration_days(KEY_LIFETIME_DAYS),
             Duration_days(KEY_LIFETIME_DAYS) + 1,
             Duration_days(KEY_LIFETIME_DAYS) + 2}

\* sql/insert_table.sql: a row is appended unless its prefix is taken.
sql_insert_table(d, row) ==
    IF \E i \in 1 .. Len(d) : d[i].prefix = row.prefix
    THEN [ok |-> FALSE, db |-> d]
    ELSE [ok |-> TRUE, db |-> Append(d, row)]

\* sql/get_by_prefix.sql: the rows matching both prefix and token.
sql_get_by_prefix(d, prefix, key) ==
    SelectSeq(d, LAMBDA r : r.prefix = prefix /\ r.token = key)

\* sql/delete_by_prefix.sql: the rows of the prefix are deleted; n counts them.
sql_delete_by_prefix(d, prefix) ==
    [n |-> Len(SelectSeq(d, LAMBDA r : r.prefix = prefix)),
     db |-> SelectSeq(d, LAMBDA r : r.prefix # prefix)]

\* format!("{prefix}#{key}") (lib.rs 57).
format_key(prefix, key) == prefix \o <<"#">> \o key

\* str::split_once('#') as the callers use it (auth_test.rs 10): the parts
\* before and after the first '#', or <<>> when there is none.
split_once(s) ==
    IF \E i \in 1 .. Len(s) : s[i] = "#"
    THEN LET i == CHOOSE i \in 1 .. Len(s) :
                    s[i] = "#" /\ \A j \in 1 .. i - 1 : s[j] # "#"
         IN <<SubSeq(s, 1, i - 1), SubSeq(s, i + 1, Len(s))>>
    ELSE <<>>

\* Mutant of generate_api_key: the credential is put together the wrong way round.
generate_api_key_swapped(d, n, prefix, key, desc) ==
    LET ins == sql_insert_table(d, [prefix |-> prefix, token |-> key,
                                    created_at |-> n,
                                    expires_at |-> n + Duration_days(KEY_LIFETIME_DAYS),
                                    description |-> desc])
    IN IF ins.ok
       THEN [panic |-> FALSE, db |-> ins.db, cred |-> format_key(key, prefix)]
       ELSE [panic |-> TRUE, db |-> d, cred |-> <<>>]

\* generate_api_key (lib.rs 44-58) with the two uuids drawn and the clock
\* read: the row inserted and the credential returned; the unwrap of a
\* failed insert panics.
generate_api_key(d, n, prefix, key, desc) ==
    LET ins == sql_insert_table(d, [prefix |-> prefix, token |-> key,
                                    created_at |-> n,
                                    expires_at |-> n + Duration_days(KEY_LIFETIME_DAYS),
                                    description |-> desc])
    IN IF ins.ok
       THEN [panic |-> FALSE, db |-> ins.db, cred |-> format_key(prefix, key)]
       ELSE [panic |-> TRUE, db |-> d, cred |-> <<>>]

\* Mutant of check_key: the row is looked up by prefix alone and its expiry
\* is judged before the token is compared.
check_key_expiry_first(d, n, prefix, key) ==
    LET res == SelectSeq(d, LAMBDA r : r.prefix = prefix)
    IN IF res = <<>>
       THEN "NoPrefixOrKeyFound"
       ELSE IF timestamp(res[Len(res)].expires_at) - timestamp(n) < 0
       THEN "ExpiredKey"
       ELSE IF res[Len(res)].token # key
       THEN "NoPrefixOrKeyFound"
       ELSE "Valid"

\* check_key (lib.rs 68-91) on table d at time n.
check_key(d, n, prefix, key) ==
    LET res == sql_get_by_prefix(d, prefix, key)
    IN IF res = <<>>
       THEN "NoPrefixOrKeyFound"
       ELSE IF timestamp(res[Len(res)].expires_at) - timestamp(n) < 0
       THEN "ExpiredKey"
       ELSE "Valid"

\* Mutant of delete_by_prefix: the count of deleted rows is not looked at.
delete_by_prefix_always_true(d, prefix) ==
    LET del == sql_delete_by_prefix(d, prefix)
    IN [db |-> del.db, ret |-> TRUE]

\* delete_by_prefix (lib.rs 101-111) on table d: the table left and the
\* value returned.
delete_by_prefix(d, prefix) ==
    LET del == sql_delete_by_prefix(d, prefix)
    IN [db |-> del.db, ret |-> del.n > 0]

\* sql/edit_desc_by_prefix.sql: the rows of the prefix get the description;
\* n counts them.
sql_edit_desc_by_prefix(d, desc, prefix) ==
    [n |-> Len(SelectSeq(d, LAMBDA r : r.prefix = prefix)),
     db |-> [i \in 1 .. Len(d) |->
                IF d[i].prefix = prefix
                THEN [d[i] EXCEPT !.description = desc]
                ELSE d[i]]]

\* Mutant of edit_description_by_prefix: the statement has no WHERE clause.
edit_description_by_prefix_everywhere(d, prefix, desc) ==
    [db |-> [i \in 1 .. Len(d) |-> [d[i] EXCEPT !.description = desc]],
     ret |-> \E i \in 1 .. Len(d) : d[i].prefix = prefix]

\* edit_description_by_prefix (lib.rs 121-131) on table d: the table left
\* and the value returned.
edit_description_by_prefix(d, prefix, desc) ==
    LET upd == sql_edit_desc_by_prefix(d, desc, prefix)
    IN [db |-> upd.db, ret |-> upd.n > 0]

\* sql/get_all_entries.sql: every row, in insertion order.
sql_get_all_entries(d) == d

\* Mutant of get_all_prefixes: the rows come latest first.
get_all_prefixes_latest_first(d) ==
    [i \in 1 .. Len(d) |-> sql_get_all_entries(d)[Len(d) + 1 - i].prefix]

\* get_all_prefixes (lib.rs 137-147): the prefix column of every row.
get_all_prefixes(d) ==
    [i \in 1 .. Len(d) |-> sql_get_all_entries(d)[i].prefix]

\* get_all_entries (lib.rs 153-171): a KeyEntry of every row.
get_all_entries(d) ==
    [i \in 1 .. Len(d) |->
        LET row == sql_get_all_entries(d)[i]
        IN [prefix |-> row.prefix, token |-> row.token,
            created_at |-> row.created_at, expires_at |-> row.expires_at,
            description |-> row.description]]

\* A key is issued.
Issue(prefix, key, desc) ==
    /\ UNCHANGED outside_keys
    /\ Len(db) < MaxRows
    /\ LET g == generate_api_key(db, now, prefix, key, desc)
       IN /\ db' = g.db
          /\ klast' = IF g.panic THEN [op |-> "panic"]
                                 ELSE [op |-> "issue", cred |-> g.cred]
    /\ UNCHANGED now

\* A key is deleted.
Delete(prefix) ==
    /\ UNCHANGED outside_keys
    /\ LET r == delete_by_prefix(db, prefix)
       IN /\ db' = r.db
          /\ klast' = [op |-> "delete", prefix |-> prefix, ret |-> r.ret]
    /\ UNCHANGED now

\* The description of a key is edited.
EditDescription(prefix, desc) ==
    /\ UNCHANGED outside_keys
    /\ LET r == edit_description_by_prefix(db, prefix, desc)
       IN /\ db' = r.db
          /\ klast' = [op |-> "edit", prefix |-> prefix, desc |-> desc,
                       ret |-> r.ret]
    /\ UNCHANGED now

\* The keys are listed.
ListAll ==
    /\ UNCHANGED outside_keys
    /\ klast' = [op |-> "list", prefixes |-> get_all_prefixes(db),
                 entries |-> get_all_entries(db)]
    /\ UNCHANGED <<db, now>>

\* Time passes.
Tick ==
    /\ UNCHANGED outside_keys
    /\ \E n \in Instants : n > now /\ now' = n
    /\ klast' = [op |-> "tick"]
    /\ UNCHANGED db

KeysInit ==
    /\ db = <<>>
    /\ now = 0
    /\ klast = [op |-> "none"]

KeysNext ==
    \/ \E prefix \in Uuids, key \in Uuids, desc \in Descs : Issue(prefix, key, desc)
    \/ \E prefix \in Uuids : Delete(prefix)
    \/ \E prefix \in Uuids, desc \in Descs : EditDescription(prefix, desc)
    \/ ListAll
    \/ Tick

(***************************************************************************)
(* StatTracker (crates/webreg/src/types.rs 130-157), statement by          *)
(* statement: the handlers that read it run on other threads.              *)
(***************************************************************************)
MAX_RECENT_REQUESTS == 2000

\* The calls made go this many past MAX_RECENT_REQUESTS.
MaxOver == 2

\* The values time_of_req may take in the call number i: any of two in the
\* first calls and in the calls around number MAX_RECENT_REQUESTS, one fixed
\* by i in between.
Times(i) ==
    IF i <= MaxOver \/ i > MAX_RECENT_REQUESTS - MaxOver
    THEN {1, 2}
    ELSE {3 + (i % 3)}

\* Mutant of recent_full: the deque is full only above MAX_RECENT_REQUESTS.
recent_full_above(len) == len > MAX_RECENT_REQUESTS

\* 151: the condition of the eviction loop.
recent_full(len) == len >= MAX_RECENT_REQUESTS

\* 147: add_stat(x) is called: num_requests.fetch_add(1).
add_stat(x) ==
    /\ UNCHANGED outside_stats
    /\ apc = "idle"
    /\ Len(samples) < MAX_RECENT_REQUESTS + MaxOver
    /\ x \in Times(Len(samples) + 1)
    /\ num_requests' = num_requests + 1
    /\ time_of_req' = x
    /\ apc' = "num_added"
    /\ UNCHANGED <<recent_requests, total_time_spent, samples, timing>>

\* 148-150: total_time_spent.fetch_add(time_of_req); the mutex is taken.
add_stat_time ==
    /\ UNCHANGED outside_stats
    /\ apc = "num_added"
    /\ total_time_spent' = total_time_spent + time_of_req
    /\ apc' = "locked"
    /\ UNCHANGED <<recent_requests, num_requests, time_of_req, samples, timing>>

\* 151-153: one turn of the eviction loop.
add_stat_pop ==
    /\ UNCHANGED outside_stats
    /\ apc = "locked"
    /\ recent_full(Len(recent_requests))
    /\ recent_requests' = Tail(recent_requests)
    /\ UNCHANGED <<num_requests, total_time_spent, apc, time_of_req, samples,
                   timing>>

\* 155-156: push_back, the mutex is released and add_stat returns.
add_stat_push ==
    /\ UNCHANGED outside_stats
    /\ apc = "locked"
    /\ ~recent_full(Len(recent_requests))
    /\ recent_requests' = Append(recent_requests, time_of_req)
    /\ samples' = Append(samples, time_of_req)
    /\ apc' = "idle"
    /\ UNCHANGED <<num_requests, total_time_spent, time_of_req, timing>>

\* No call of get_timing_stats has been made.
NoTiming ==
    [pc |-> "idle", num_requests |-> 0, time_spent |-> 0, recent_requests |-> <<>>]

\* 71-75: a new StatTracker.
StatsInit ==
    /\ recent_requests = <<>>
    /\ num_requests = 0
    /\ total_time_spent = 0
    /\ apc = "idle"
    /\ time_of_req = 0
    /\ samples = <<>>
    /\ timing = NoTiming

StatsNext ==
    \/ \E x \in {1, 2, 3, 4, 5} : add_stat(x)
    \/ add_stat_time
    \/ add_stat_pop
    \/ add_stat_push

(***************************************************************************)
(* get_timing_stats (server/endpoints/status.rs 26-49) for a configured    *)
(* term, load by load: it runs on a server thread while the term's worker  *)
(* calls add_stat.                                                         *)
(***************************************************************************)
\* The add_stat calls a reading request is followed through.
MaxTimed == 3

\* 32: a request arrives; num_requests.load.
get_timing_stats ==
    /\ UNCHANGED outside_stats
    /\ timing.pc \in {"idle", "answered"}
    /\ timing' = [pc |-> "num_loaded", num_requests |-> num_requests,
                  time_spent |-> 0, recent_requests |-> <<>>]
    /\ UNCHANGED <<recent_requests, num_requests, total_time_spent, apc,
                   time_of_req, samples>>

\* Mutant of get_timing_stats_time_spent: total_time_spent is not loaded.
get_timing_stats_time_spent_unread ==
    /\ UNCHANGED outside_stats
    /\ timing.pc = "num_loaded"
    /\ timing' = [timing EXCEPT !.pc = "time_loaded"]
    /\ UNCHANGED <<recent_requests, num_requests, total_time_spent, apc,
                   time_of_req, samples>>

\* 33: total_time_spent.load.
get_timing_stats_time_spent ==
    /\ UNCHANGED outside_stats
    /\ timing.pc = "num_loaded"
    /\ timing' = [timing EXCEPT !.pc = "time_loaded",
                                !.time_spent = total_time_spent]
    /\ UNCHANGED <<recent_requests, num_requests, total_time_spent, apc,
                   time_of_req, samples>>

\* 34-45: recent_requests is copied under its mutex, which add_stat holds
\* from 150 to its return, and the response is built.
get_timing_stats_respond ==
    /\ UNCHANGED outside_stats
    /\ timing.pc = "time_loaded"
    /\ apc # "locked"
    /\ timing' = [timing EXCEPT !.pc = "answered",
                                !.recent_requests = recent_requests]
    /\ UNCHANGED <<recent_requests, num_requests, total_time_spent, apc,
                   time_of_req, samples>>

TimingNext ==
    \/ /\ Len(samples) < MaxTimed
       /\ \E x \in {1, 2, 3, 4, 5} : add_stat(x)
    \/ add_stat_time
    \/ add_stat_push
    \/ get_timing_stats
    \/ get_timing_stats_time_spent
    \/ get_timing_stats_respond

(***************************************************************************)
(* The HTTP gateway: create_router (src/server/mod.rs 24-88) and the       *)
(* middleware (crates/webreg/src/server/middleware).  One request is       *)
(* followed from layer to layer; each layer function is one action.        *)
(***************************************************************************)
\* mod.rs 26-47: the routes that carry check_cookies.
cookie_router ==
    {"/add_section", "/validate_add_section", "/drop_section", "/add_plan",
     "/validate_add_plan", "/remove_plan", "/schedule", "/schedule_list",
     "/register_term", "/events", "/rename_schedule"}

\* mod.rs 50-60: the routes that carry validate_term.
parsed_router ==
    {"/course_info", "/prerequisites", "/search", "/department_codes",
     "/subject_codes"} \cup cookie_router

\* Mutant of webreg_router_layers: /terms carries validate_term as well.
webreg_router_layers_terms_validated(route) ==
    <<"running", "term">>
        \o (IF route \in cookie_router THEN <<"cookie">> ELSE <<>>)

\* Mutant of webreg_router_layers: the term layer is outside the readiness
\* layer.
webreg_router_layers_term_first(route) ==
    (IF route \in parsed_router THEN <<"term">> ELSE <<>>)
        \o <<"running">>
        \o (IF route \in cookie_router THEN <<"cookie">> ELSE <<>>)

\* mod.rs 44-47, 57-60, 65-71: the layers of a route nested under
\* /live/:term, the outermost first.
webreg_router_layers(route) ==
    <<"running">>
        \o (IF route \in parsed_router THEN <<"term">> ELSE <<>>)
        \o (IF route \in cookie_router THEN <<"cookie">> ELSE <<>>)

\* mod.rs 65-71: the routes nested under /live/:term.
webreg_router == parsed_router \cup {"/terms"}

\* mod.rs 73-78: every route of the router.
Routes == {"/health", "/timing/:term", "/login_stat/:stat"} \cup webreg_router

\* Mutant of layers_of: the auth layer wraps the routes under /live/:term
\* only.
layers_of_auth_nested(route) ==
    IF route \in webreg_router
    THEN (IF auth_feature THEN <<"auth">> ELSE <<>>) \o webreg_router_layers(route)
    ELSE <<>>

\* mod.rs 73-87: the layers a request for the route goes through.
layers_of(route) ==
    (IF auth_feature THEN <<"auth">> ELSE <<>>)
        \o (IF route \in webreg_router THEN webreg_router_layers(route) ELSE <<>>)

\* The :term values requests carry.
PathTerms ==
    {<<"F", "A", "2", "2">>, <<"f", "a", "2", "2">>, <<"w", "I", "2", "3">>,
     <<"x", "x", "9", "9">>}

\* The keys of all_terms as characters.
term_chars(t) ==
    IF t = "FA22" THEN <<"F", "A", "2", "2">> ELSE <<"W", "I", "2", "3">>

\* Mutant of to_uppercase: the value is looked up as it came.
to_uppercase_kept(s) == s

\* str::to_uppercase (term_validator.rs 25) on the letters that occur.
to_uppercase(s) ==
    [i \in 1 .. Len(s) |->
        CASE s[i] = "f" -> "F"
          [] s[i] = "a" -> "A"
          [] s[i] = "x" -> "X"
          [] s[i] = "w" -> "W"
          [] s[i] = "i" -> "I"
          [] OTHER -> s[i]]

\* all_terms.contains_key (term_validator.rs 26).
contains_key(term) == \E t \in all_terms : term_chars(t) = term

Bearer == <<"B", "e", "a", "r", "e", "r", " ">>

\* str::strip_prefix (auth_validator.rs 23): <<rest>> or <<>>.
strip_prefix(s, p) ==
    IF Len(s) >= Len(p) /\ SubSeq(s, 1, Len(p)) = p
    THEN <<SubSeq(s, Len(p) + 1, Len(s))>>
    ELSE <<>>

\* The Authorization headers requests carry: none, one that is not visible
\* ASCII, and texts.
AuthHeaders ==
    {[kind |-> "absent", value |-> <<>>], [kind |-> "opaque", value |-> <<>>]}
    \cup [kind : {"text"},
          value : {<<"B", "a", "s", "i", "c", " ", "b", "#", "b">>,
                   Bearer \o <<"b", "b">>,
                   Bearer \o <<"b", "#", "b">>,
                   Bearer \o <<"a", "#", "a">>,
                   Bearer \o <<"b", "#", "a">>,
                   Bearer \o <<"c", "#", "c">>,
                   Bearer \o <<"b", "#", "b", "#", "b">>}]

CookieHeaders == {"absent", "ascii", "not_ascii"}

SectionIds == {"079911", "123456"}

NoResponse == [status |-> 0, error |-> "", by |-> "none", portal |-> "none"]

NoFetch == [known |-> FALSE, ok |-> FALSE, schedule |-> <<>>]

\* The layer that runs next.
current_layer ==
    IF rpc = "layers" THEN layers_of(req.route)[Len(passed) + 1] ELSE "none"

\* next.run(req): the request goes on to the next layer or to the handler.
next_run ==
    /\ passed' = Append(passed, current_layer)
    /\ rpc' = IF Len(passed) + 1 = Len(layers_of(req.route))
              THEN "handler" ELSE "layers"
    /\ UNCHANGED <<req, resp, calls>>

\* A layer or a handler answers.
respond(status, error, by, portal) ==
    /\ resp' = [status |-> status, error |-> error, by |-> by, portal |-> portal]
    /\ rpc' = "answered"
    /\ UNCHANGED <<req, passed>>

\* A request arrives.  The gateway keeps nothing from one request to the
\* next, so one request is followed.
Arrive(route, term, authorization, cookie, section_id) ==
    /\ UNCHANGED outside_gateway
    /\ rpc = "idle"
    /\ req' = [route |-> route, term |-> term, authorization |-> authorization,
               cookie |-> cookie, section_id |-> section_id]
    /\ rpc' = IF layers_of(route) = <<>> THEN "handler" ELSE "layers"
    /\ passed' = <<>>
    /\ resp' = NoResponse
    /\ ext' = {}
    /\ calls' = <<>>
    /\ fetched' = NoFetch
    /\ UNCHANGED auth_feature

\* Mutant of auth: a key that has expired is let through like a valid one.
auth_lets_expired_through ==
    /\ UNCHANGED <<outside_gateway, auth_feature, fetched>>
    /\ current_layer = "auth"
    /\ LET h == req.authorization
           token == IF h.kind = "text" THEN strip_prefix(h.value, Bearer) ELSE <<>>
           sp == IF token = <<>> THEN <<>> ELSE split_once(token[1])
       IN IF token = <<>>
          THEN /\ respond(401, "You didn't provide a bearer token.", "auth", "none")
               /\ UNCHANGED <<ext, calls>>
          ELSE IF sp = <<>>
          THEN /\ respond(401, "Token is in invalid format (missing separator).",
                          "auth", "none")
               /\ UNCHANGED <<ext, calls>>
          ELSE IF check_key(db, now, sp[1], sp[2]) = "NoPrefixOrKeyFound"
          THEN /\ respond(401, "Token is invalid or the key doesn't exist.",
                          "auth", "none")
               /\ UNCHANGED <<ext, calls>>
          ELSE /\ ext' = ext \cup {sp[1]}
               /\ next_run

\* auth (auth_validator.rs 13-75).
auth ==
    /\ UNCHANGED <<outside_gateway, auth_feature, fetched>>
    /\ current_layer = "auth"
    /\ LET h == req.authorization
           \* 19-24: the header, as a string, without "Bearer "
           token == IF h.kind = "text" THEN strip_prefix(h.value, Bearer) ELSE <<>>
           \* 38
           sp == IF token = <<>> THEN <<>> ELSE split_once(token[1])
           res == IF sp = <<>> THEN "none" ELSE check_key(db, now, sp[1], sp[2])
       IN IF token = <<>>
          THEN /\ respond(401, "You didn't provide a bearer token.", "auth", "none")
               /\ UNCHANGED <<ext, calls>>
          ELSE IF sp = <<>>
          THEN /\ respond(401, "Token is in invalid format (missing separator).",
                          "auth", "none")
               /\ UNCHANGED <<ext, calls>>
          ELSE CASE res = "Valid" ->
                      /\ ext' = ext \cup {sp[1]}
                      /\ next_run
                 [] res = "NoPrefixOrKeyFound" ->
                      /\ respond(401, "Token is invalid or the key doesn't exist.",
                                 "auth", "none")
                      /\ UNCHANGED <<ext, calls>>
                 [] res = "ExpiredKey" ->
                      /\ respond(401, "Token is expired.", "auth", "none")
                      /\ UNCHANGED <<ext, calls>>

\* Mutant of validate_wrapper_running: is_running is not looked at.
validate_wrapper_running_always ==
    /\ UNCHANGED <<outside_gateway, auth_feature, fetched, ext>>
    /\ current_layer = "running"
    /\ next_run

\* validate_wrapper_running (running_validator.rs 15-31).
validate_wrapper_running ==
    /\ UNCHANGED <<outside_gateway, auth_feature, fetched, ext>>
    /\ current_layer = "running"
    /\ IF is_running
       THEN next_run
       ELSE /\ respond(500, "The API isn't ready to make requests at this time.",
                       "running", "none")
            /\ UNCHANGED calls

\* validate_term (term_validator.rs 18-36).
validate_term ==
    /\ UNCHANGED <<outside_gateway, auth_feature, fetched, ext>>
    /\ current_layer = "term"
    /\ IF contains_key(to_uppercase(req.term))
       THEN next_run
       ELSE /\ respond(404, "The specified term cannot be found", "term", "none")
            /\ UNCHANGED calls

\* check_cookies (cookie_validator.rs 12-36).
check_cookies ==
    /\ UNCHANGED <<outside_gateway, auth_feature, fetched, ext>>
    /\ current_layer = "cookie"
    /\ CASE req.cookie = "ascii" -> next_run
         [] req.cookie = "not_ascii" ->
              /\ respond(400, "Your cookies must only contain ASCII characters.",
                         "cookie", "none")
              /\ UNCHANGED calls
         [] req.cookie = "absent" ->
              /\ respond(400, "You must provide your WebReg cookies for this endpoint.",
                         "cookie", "none")
              /\ UNCHANGED calls

\* The statuses of a mapped portal error (server/types.rs 122-169).
ErrorStatuses == {400, 401, 404, 418, 500, 503}

\* The Cookie header of a request that has passed check_cookies
\* (ww_cookies.rs 32: headers.get(COOKIE).unwrap().to_str().unwrap()).
ClientCookies == "headers[COOKIE]"

\* The wrapper the handler of a route calls the portal with: c_wrapper in
\* ww_cookies.rs, wrapper in ww_general.rs, none in status.rs.
wrapper_of(route) ==
    IF route \in cookie_router THEN "c_wrapper"
    ELSE IF route \in webreg_router THEN "wrapper"
    ELSE "none"

\* The cookies a portal call of the handler carries: those given to
\* override_cookies (ww_cookies.rs 33-35), else the wrapper's own.
sent_cookies(route) ==
    IF route \in cookie_router THEN ClientCookies
    ELSE IF route \in webreg_router THEN cookies.wrapper
    ELSE "none"

\* Mutant of handler_cookies: the handlers of ww_cookies.rs set the client's
\* cookies on the polling wrapper.
handler_cookies_set(route) ==
    IF route \in cookie_router THEN set_cookies("wrapper", ClientCookies) ELSE cookies

\* The wrappers' cookies after a handler has run: override_cookies acts on
\* the request being built, and no handler calls set_cookies.
handler_cookies(route) == cookies

\* What a call of the portal wrapper or of a handler is noted as.
Call(op, add_type, section_id) ==
    [op |-> op, add_type |-> add_type, section_id |-> section_id,
     wrapper |-> wrapper_of(req.route), cookies |-> sent_cookies(req.route)]

\* The statuses the handler of a route answers with: get_health and
\* get_timing_stats (status.rs 15-50) answer by themselves, the others with
\* 200 or the mapped error of their portal call (ww_general.rs 16-22).
handler_statuses(route) ==
    CASE route = "/health" -> {get_health.status}
      [] route = "/timing/:term" -> {IF contains_key(req.term) THEN 200 ELSE 404}
      [] OTHER -> {200} \cup ErrorStatuses

\* The handler of any route but /drop_section runs and answers.
handler(status) ==
    /\ UNCHANGED <<outside_handler, auth_feature, fetched, ext>>
    /\ cookies' = handler_cookies(req.route)
    /\ rpc = "handler"
    /\ req.route # "/drop_section"
    /\ status \in handler_statuses(req.route)
    /\ calls' = Append(calls, Call("handler", "", ""))
    /\ respond(status, "", "handler",
               IF req.route \notin webreg_router THEN "none"
               ELSE IF status = 200 THEN "ok" ELSE "err")

(***************************************************************************)
(* post_drop_section (src/server/endpoints/ww_cookies.rs 279-348).         *)
(***************************************************************************)
EnrollmentStatuses == {"Enrolled", "Waitlist", "Planned", "Unknown"}

\* The most sections of a schedule.
MaxSchedule == 2

\* What get_schedule may return.
Schedules ==
    UNION {[1 .. n -> [section_id : SectionIds,
                       enrolled_status : EnrollmentStatuses]] :
               n \in 0 .. MaxSchedule}

\* 295-304: the sections that are enrolled or waitlisted and have the
\* section id of the body; find takes the first.
find_section(schedule, section_id) ==
    SelectSeq(schedule,
              LAMBDA s : /\ s.enrolled_status \in {"Enrolled", "Waitlist"}
                         /\ s.section_id = section_id)

\* Mutant of explicit_add_type: the two add-types are mixed up.
explicit_add_type_swapped(enrolled_status) ==
    CASE enrolled_status = "Enrolled" -> "Waitlist"
      [] enrolled_status = "Waitlist" -> "Enroll"
      [] OTHER -> "none"

\* 318-332: the add-type of an enrollment status ("none": the 404 arm).
explicit_add_type(enrolled_status) ==
    CASE enrolled_status = "Enrolled" -> "Enroll"
      [] enrolled_status = "Waitlist" -> "Waitlist"
      [] OTHER -> "none"

\* 279-294: the handler runs and asks the portal for the schedule.
post_drop_section ==
    /\ UNCHANGED <<outside_handler, auth_feature, fetched, ext>>
    /\ cookies' = handler_cookies(req.route)
    /\ rpc = "handler"
    /\ req.route = "/drop_section"
    /\ calls' = Append(calls, Call("get_schedule", "", ""))
    /\ rpc' = "get_schedule"
    /\ UNCHANGED <<req, passed, resp>>

\* 294-342: the schedule, or an error, comes back; the drop call is sent or
\* the handler answers.
post_drop_section_schedule(ok, schedule, status) ==
    /\ UNCHANGED <<outside_handler, auth_feature, ext>>
    /\ cookies' = handler_cookies(req.route)
    /\ rpc = "get_schedule"
    /\ fetched' = [known |-> TRUE, ok |-> ok,
                   schedule |-> IF ok THEN schedule ELSE <<>>]
    /\ IF ~ok
       THEN /\ respond(status, "", "handler", "err")
            /\ UNCHANGED calls
       ELSE LET sec == find_section(schedule, req.section_id)
                add_type == IF sec = <<>> THEN "none"
                            ELSE explicit_add_type(sec[1].enrolled_status)
            IN IF add_type = "none"
               THEN /\ respond(404, "You don't appeared to be enrolled in section",
                               "handler", "ok")
                    /\ UNCHANGED calls
               ELSE /\ calls' = Append(calls, Call("drop_section", add_type,
                                                   req.section_id))
                    /\ rpc' = "drop_section"
                    /\ UNCHANGED <<req, passed, resp>>

\* 340-347: the drop call answers.
post_drop_section_dropped(status) ==
    /\ UNCHANGED <<outside_handler, auth_feature, fetched, ext>>
    /\ cookies' = handler_cookies(req.route)
    /\ rpc = "drop_section"
    /\ respond(status, "", "handler", IF status = 200 THEN "ok" ELSE "err")
    /\ UNCHANGED calls

\* run_tracker stores into is_running (tracker.rs 48, 69) while the gateway
\* serves.
is_running_store(b) ==
    /\ b # is_running
    /\ is_running' = b
    /\ UNCHANGED <<stop_flag, cookies, tracker_vars, login_vars, login_log,
                   worker_vars, csv, main_vars, beside_gateway, server_vars>>

NoRequest ==
    [route |-> "none", term |-> <<>>,
     authorization |-> [kind |-> "absent", value |-> <<>>],
     cookie |-> "absent", section_id |-> ""]

\* No request has arrived yet.
GatewayIdle ==
    /\ req = NoRequest
    /\ rpc = "idle"
    /\ passed = <<>>
    /\ resp = NoResponse
    /\ ext = {}
    /\ calls = <<>>
    /\ fetched = NoFetch

\* The key table the gateway is looked at with: the key a#a, expired, and
\* the key b#b, valid.
GatewayKeys ==
    /\ now = 2 * Duration_days(KEY_LIFETIME_DAYS)
    /\ db = <<[prefix |-> <<"a">>, token |-> <<"a">>, created_at |-> 0,
               expires_at |-> Duration_days(KEY_LIFETIME_DAYS),
               description |-> "NULL"],
              [prefix |-> <<"b">>, token |-> <<"b">>, created_at |-> now,
               expires_at |-> now + Duration_days(KEY_LIFETIME_DAYS),
               description |-> "NULL"]>>
    /\ klast = [op |-> "issue", cred |-> format_key(<<"b">>, <<"b">>)]

GatewayNext ==
    \/ /\ rpc = "idle"
       /\ \E route \in Routes, term \in PathTerms, authorization \in AuthHeaders,
             cookie \in CookieHeaders, section_id \in SectionIds :
              Arrive(route, term, authorization, cookie, section_id)
    \/ auth
    \/ validate_wrapper_running
    \/ validate_term
    \/ check_cookies
    \/ /\ rpc = "handler"
       /\ \E status \in {200} \cup ErrorStatuses : handler(status)
    \/ post_drop_section
    \/ /\ rpc = "get_schedule"
       /\ \E ok \in BOOLEAN, schedule \in Schedules, status \in ErrorStatuses :
              post_drop_section_schedule(ok, schedule, status)
    \/ /\ rpc = "drop_section"
       /\ \E status \in {200} \cup ErrorStatuses : post_drop_section_dropped(status)
    \/ \E b \in BOOLEAN : is_running_store(b)

(***************************************************************************)
(* The CSV data row of track_webreg_enrollment (tracker.rs 210-228).       *)
(* Strings are sequences of characters.                                    *)
(***************************************************************************)
\* The most instructors a section has.
MaxInstructors == 2

RECURSIVE join(_, _)
\* [String]::join(sep)
join(ss, sep) ==
    IF ss = <<>>
    THEN <<>>
    ELSE IF Len(ss) = 1
         THEN ss[1]
         ELSE ss[1] \o sep \o join(Tail(ss), sep)

\* str::replace(from, to), from a character and to a one-character string
replace(s, from, to) == [i \in 1 .. Len(s) |-> IF s[i] = from THEN to ELSE s[i]]

Digits == <<"0", "1", "2", "3", "4", "5", "6", "7", "8", "9">>

RECURSIVE fmt_u(_)
\* Display of an unsigned integer
fmt_u(n) ==
    IF n < 10
    THEN <<Digits[n + 1]>>
    ELSE Append(fmt_u(n \div 10), Digits[(n % 10) + 1])

\* Display of an i64
fmt_i(n) == IF n < 0 THEN <<"-">> \o fmt_u(0 - n) ELSE fmt_u(n)

\* 213-226: writeln!(writer, "{},{},{},{},{},{},{},{},{}", ...)
format_row(time, c) ==
    join(<<fmt_u(time),
           c.subj_course_id,
           c.section_code,
           c.section_id,
           replace(join(c.all_instructors, <<" ", "&", " ">>), ",", ";"),
           fmt_i(c.available_seats),
           fmt_i(c.waitlist_ct),
           fmt_i(c.total_seats),
           fmt_i(c.enrolled_ct)>>, <<",">>) \o <<"\n">>

\* Instructor names as the portal gives them.
InstructorNames ==
    {<<"D", "o", "e", ",", " ", "J", "a", "n", "e">>,
     <<"R", "o", "e", ",", " ", "J", "o", "h", "n">>,
     <<"S", "t", "a", "f", "f">>}

InstructorLists ==
    UNION {[1 .. n -> InstructorNames] : n \in 0 .. MaxInstructors}

\* webweg's CourseSection, the fields the row uses: the three identifiers
\* are strings taken from the portal's answer and written as they are.
CourseSections ==
    [subj_course_id : {<<"C", "S", "E", " ", "1", "0", "0">>,
                       <<"M", "A", "T", "H", " ", "2", "0", "C">>},
     section_code : {<<"A", "0", "1">>, <<"A", "0", ",", "1">>},
     section_id : {<<"0", "7", "9", "9", "1", "1">>},
     all_instructors : InstructorLists,
     available_seats : {0 - 3, 0, 12},
     waitlist_ct : {0, 7},
     total_seats : {0, 150},
     enrolled_ct : {0, 138}]

\* get_epoch_time(), in milliseconds
EpochTimes == {0, 1667572105}

NoSection ==
    [subj_course_id |-> <<>>, section_code |-> <<>>, section_id |-> <<>>,
     all_instructors |-> <<>>, available_seats |-> 0, waitlist_ct |-> 0,
     total_seats |-> 0, enrolled_ct |-> 0]

RowIdle ==
    /\ row_section = NoSection
    /\ row_time = 0
    /\ row_line = <<>>

\* 212-228: the row of the section is written.
writeln ==
    /\ row_line = <<>>
    /\ row_line' = format_row(row_time, row_section)
    /\ UNCHANGED <<row_section, row_time>>
    /\ UNCHANGED outside_row

(***************************************************************************)
(* ApiErrorType::into_response (crates/webreg/src/server/types.rs          *)
(* 122-185).  Option<T> is <<>> for None and <<x>> for Some(x); an error   *)
(* that is displayed (r.to_string()) is the text it displays.              *)
(***************************************************************************)
\* The texts the errors carry.
Details == {"a", "b"}

Options == {<<>>} \cup {<<d>> : d \in Details}

\* The status codes a portal answer or a handler's own error may carry.
StatusCodes == {204, 302, 400, 403, 404, 418, 500, 503}

\* The variants of WrapperError matched in 125-166, with their fields:
\* code and opt for BadStatusCode(b, c), s1 and s2 for InputError(i, e),
\* s1 and ctx for SectionIdNotFound(s, c), s1 for the one-field variants.
WrapperErrors ==
    [type : {"WebReg"}, kind : {"UrlParseError", "SessionNotValid", "BadTimeError"},
     code : {0}, s1 : {""}, s2 : {""}, opt : {<<>>}, ctx : {""}]
    \cup [type : {"WebReg"},
          kind : {"RequestError", "SerdeError", "WebRegError", "WrapperParsingError"},
          code : {0}, s1 : Details, s2 : {""}, opt : {<<>>}, ctx : {""}]
    \cup [type : {"WebReg"}, kind : {"InputError"},
          code : {0}, s1 : Details, s2 : Details, opt : {<<>>}, ctx : {""}]
    \cup [type : {"WebReg"}, kind : {"BadStatusCode"},
          code : StatusCodes, s1 : {""}, s2 : {""}, opt : Options, ctx : {""}]
    \cup [type : {"WebReg"}, kind : {"SectionIdNotFound"},
          code : {0}, s1 : Details, s2 : {""}, opt : {<<>>},
          ctx : {"Schedule", "Catalog"}]

\* 103: ApiErrorType::General(code, err, additional_info).
GeneralErrors ==
    [type : {"General"}, kind : {"General"},
     code : StatusCodes, s1 : Details, s2 : {""}, opt : Options, ctx : {""}]

ApiErrorTypes == WrapperErrors \cup GeneralErrors

\* 132: format!("input={i}, bad arg value={e}")
format_input(i, e) ==
    CASE i = "a" /\ e = "a" -> "input=a, bad arg value=a"
      [] i = "a" /\ e = "b" -> "input=a, bad arg value=b"
      [] i = "b" /\ e = "a" -> "input=b, bad arg value=a"
      [] i = "b" /\ e = "b" -> "input=b, bad arg value=b"

\* 124-170: (status_code, base_error, additional_error) of the error.
error_parts(e) ==
    CASE e.type = "General" -> <<e.code, e.s1, e.opt>>
      [] e.kind = "RequestError" ->
            <<500, "An internal request error occurred.", <<e.s1>>>>
      [] e.kind = "UrlParseError" ->
            <<500, "An internal URL parsing error occurred.", <<>>>>
      [] e.kind = "InputError" ->
            <<400, "A bad argument was passed in.", <<format_input(e.s1, e.s2)>>>>
      [] e.kind = "SerdeError" ->
            <<418, "An error occurred when trying to convert a string to a JSON object. It's possible your session is not valid.",
              <<e.s1>>>>
      [] e.kind = "BadStatusCode" ->
            <<e.code, "A non-OK status code was hit.", e.opt>>
      [] e.kind = "WebRegError" ->
            <<400, "WebReg returned an error regarding your request.", <<e.s1>>>>
      [] e.kind = "SectionIdNotFound" ->
            <<404,
              IF e.ctx = "Schedule"
              THEN "The section ID you specified wasn't found in your schedule."
              ELSE "The section ID you specified doesn't appear to be offered in the specified term.",
              <<e.s1>>>>
      [] e.kind = "WrapperParsingError" ->
            <<500, "An error occurred when trying to convert the response JSON into an object.",
              <<e.s1>>>>
      [] e.kind = "SessionNotValid" ->
            <<401, "Your session isn't valid. Try a different set of WebReg cookies.",
              <<>>>>
      [] e.kind = "BadTimeError" ->
            <<500, "An error occurred when trying to parse a time unit.", <<>>>>

\* Mutant of json_obj: the context is written also when there is none.
json_obj_context_always(base_error, additional_error) ==
    {<<"error", base_error>>,
     <<"context", IF additional_error = <<>> THEN "null" ELSE additional_error[1]>>}

\* 172-182: the JSON object of the body, as its key-value pairs.
json_obj(base_error, additional_error) ==
    IF additional_error = <<>>
    THEN {<<"error", base_error>>}
    ELSE {<<"error", base_error>>, <<"context", additional_error[1]>>}

NoApiResponse == [status |-> 0, body |-> {}]

\* 123-185: into_response.
into_response ==
    /\ api_response = NoApiResponse
    /\ api_error \in ApiErrorTypes
    /\ LET parts == error_parts(api_error)
       IN api_response' = [status |-> parts[1], body |-> json_obj(parts[2], parts[3])]
    /\ UNCHANGED <<api_error, body_days, search_days>>
    /\ UNCHANGED outside_convert

(***************************************************************************)
(* impl From<BodySearchType> for SearchType (server/types.rs 258-350):     *)
(* the days of a SearchAdvanced body.                                      *)
(***************************************************************************)
\* The most day tokens of a body.
MaxDays == 2

\* The day tokens bodies carry.
DayTokens ==
    {"M", "m", "Tu", "tu", "TU", "tU", "W", "w", "Th", "th", "TH", "F", "f",
     "Sa", "sa", "SA", "Su", "su", "sU", "Mo", ""}

RECURSIVE apply_days_from(_, _)

\* 321-334: the loop over the tokens; apply_day adds the day to the days of
\* the builder, every other token leaves the builder as it is.
apply_days_from(search, d) ==
    IF d = <<>>
    THEN search
    ELSE LET day == Head(d)
             next == CASE day \in {"M", "m"} -> search \cup {"Monday"}
                       [] day \in {"Tu", "tu"} -> search \cup {"Tuesday"}
                       [] day \in {"W", "w"} -> search \cup {"Wednesday"}
                       [] day \in {"Th", "th"} -> search \cup {"Thursday"}
                       [] day \in {"F", "f"} -> search \cup {"Friday"}
                       [] day \in {"Sa", "sa"} -> search \cup {"Saturday"}
                       [] day \in {"Su", "su"} -> search \cup {"Sunday"}
                       [] OTHER -> search
         IN apply_days_from(next, Tail(d))

\* No SearchRequestBuilder has been made.
NoSearch == [made |-> FALSE, days |-> {}]

\* 273 and 321-334: a new builder has no day; the tokens of Some(d) are
\* applied to it.
from_body ==
    /\ ~search_days.made
    /\ search_days' = [made |-> TRUE,
                       days |-> IF body_days.some
                                THEN apply_days_from({}, body_days.d)
                                ELSE {}]
    /\ UNCHANGED <<api_error, api_response, body_days>>
    /\ UNCHANGED outside_convert

\* No error and no body is being converted.
ConvertIdle ==
    /\ api_error = [type |-> "none"]
    /\ api_response = NoApiResponse
    /\ body_days = [some |-> FALSE, d |-> <<>>]
    /\ search_days = NoSearch

(***************************************************************************)
(* The tracker specification.  Init is the state after main has built the  *)
(* WrapperState (types.rs 81-99), spawned run_tracker and started serving: *)
(* try_login is in its first backoff sleep.                                *)
(***************************************************************************)
TrackerInit ==
    /\ stop_flag = FALSE
    /\ is_running = FALSE
    /\ cookies = [wrapper |-> "To be loaded later",
                  c_wrapper |-> "To be determined by the user's cookies."]
    /\ tpc = "init_login"
    /\ exit_why = "none"
    /\ loop_stop = FALSE
    /\ lpc = "backoff"
    /\ num_failures = 0
    /\ num_tries = 0
    /\ vleft = {}
    /\ wpc = [t \in all_terms |-> "unspawned"]
    /\ qi = Zeros
    /\ nres = Zeros
    /\ fail_count = Zeros
    /\ exit_reason = Nones
    /\ search_err = [t \in all_terms |-> FALSE]
    /\ last_enroll = Nones
    /\ after_stop_search = Zeros
    /\ after_stop_enroll = Zeros
    /\ csv = [t \in all_terms |-> FALSE]
    /\ spc = "wait"
    /\ exited = FALSE

LoginStep ==
    \/ BackoffWake
    \/ \E o \in CookieOutcomes : CookieResponse(o)
    \/ RegSleepWake
    \/ \E ok \in BOOLEAN : RegisterResponse(ok)
    \/ \E t \in all_terms, o \in SearchOutcomes : ValidateResponse(t, o)

WorkerStep ==
    \/ \E t \in all_terms, opened \in BOOLEAN, io_ok \in BOOLEAN :
           WorkerStart(t, opened, io_ok)
    \/ \E t \in all_terms, ok \in BOOLEAN, k \in SearchCounts :
           SearchResponse(t, ok, k)
    \/ \E t \in all_terms, io_ok \in BOOLEAN : SearchSleepWake(t, io_ok)
    \/ \E t \in all_terms : EnrollStarts(t)
    \/ \E t \in all_terms, o \in SearchOutcomes, io_ok \in BOOLEAN :
           EnrollResponse(t, o, io_ok)
    \/ \E t \in all_terms, io_ok \in BOOLEAN : CooldownWake(t, io_ok)

MainStep ==
    \/ CtrlC
    \/ PollRunning
    \/ MainReturns

TrackerNext == LoginStep \/ WorkerStep \/ MainStep

vars == <<tracker_side, cookies, key_vars, stats_vars, server_vars, row_vars,
          convert_vars>>

Init ==
    /\ TrackerInit
    /\ login_log = NoLog
    /\ KeysInit
    /\ StatsInit
    /\ auth_feature = FALSE
    /\ GatewayIdle
    /\ RowIdle
    /\ ConvertIdle

Next == TrackerNext

Spec == Init /\ [][Next]_vars

\* The key store alone: the tracker does not use it.
SpecKeys == Init /\ [][KeysNext]_vars

\* One StatTracker alone.
SpecStats == Init /\ [][StatsNext]_vars

\* A reader of the StatTracker beside its writer, for the first MaxTimed
\* calls of add_stat (recent_requests does not fill up in them).
SpecTiming == Init /\ [][TimingNext]_vars

\* The gateway alone, built with and without the feature "auth".
GatewayInit ==
    /\ TrackerInit
    /\ login_log = NoLog
    /\ StatsInit
    /\ GatewayKeys
    /\ auth_feature \in BOOLEAN
    /\ GatewayIdle
    /\ RowIdle
    /\ ConvertIdle

SpecGateway == GatewayInit /\ [][GatewayNext]_vars

\* One call of try_login alone (the initial login), its sleeps and the
\* cookie server's answers recorded.
BackoffInit ==
    /\ TrackerInit
    /\ login_log = [on |-> TRUE, sleeps |-> <<>>, answers |-> <<>>]
    /\ KeysInit
    /\ StatsInit
    /\ auth_feature = FALSE
    /\ GatewayIdle
    /\ RowIdle
    /\ ConvertIdle

SpecBackoff == BackoffInit /\ [][LoginStep]_vars

\* Session Recovery while the gateway serves one request: a request with
\* or without a Cookie header, for a handler of ww_cookies.rs or of
\* ww_general.rs.
CookiesNext ==
    \/ LoginStep
    \/ /\ rpc = "idle"
       /\ \E route \in {"/schedule", "/course_info", "/terms"},
             cookie \in CookieHeaders :
              Arrive(route, <<"F", "A", "2", "2">>, NoRequest.authorization,
                     cookie, "079911")
    \/ validate_wrapper_running
    \/ validate_term
    \/ check_cookies
    \/ /\ rpc = "handler"
       /\ \E status \in {200} \cup ErrorStatuses : handler(status)

SpecCookies == Init /\ [][CookiesNext]_vars

\* The writing of one CSV data row alone, for every section and time.
RowInit ==
    /\ TrackerInit
    /\ login_log = NoLog
    /\ KeysInit
    /\ StatsInit
    /\ auth_feature = FALSE
    /\ GatewayIdle
    /\ row_section \in CourseSections
    /\ row_time \in EpochTimes
    /\ row_line = <<>>
    /\ ConvertIdle

SpecRow == RowInit /\ [][writeln]_vars

\* A handler's error is turned into a response.
ErrorsInit ==
    /\ TrackerInit
    /\ login_log = NoLog
    /\ KeysInit
    /\ StatsInit
    /\ auth_feature = FALSE
    /\ GatewayIdle
    /\ RowIdle
    /\ api_error \in ApiErrorTypes
    /\ api_response = NoApiResponse
    /\ body_days = [some |-> FALSE, d |-> <<>>]
    /\ search_days = NoSearch

SpecErrors == ErrorsInit /\ [][into_response]_vars

\* The days of a search body: absent, or up to MaxDays tokens.
BodyDays ==
    {[some |-> FALSE, d |-> <<>>]}
    \cup [some : {TRUE}, d : UNION {[1 .. n -> DayTokens] : n \in 0 .. MaxDays}]

DaysInit ==
    /\ TrackerInit
    /\ login_log = NoLog
    /\ KeysInit
    /\ StatsInit
    /\ auth_feature = FALSE
    /\ GatewayIdle
    /\ RowIdle
    /\ api_error = [type |-> "none"]
    /\ api_response = NoApiResponse
    /\ body_days \in BodyDays
    /\ search_days = NoSearch

SpecDays == DaysInit /\ [][from_body]_vars

(***************************************************************************)
(* Fairness: tokio polls a task again once the request or sleep it awaits  *)
(* has completed, and every request and sleep does complete.  The          *)
(* interrupt is the user's and is not forced.                              *)
(***************************************************************************)
WorkerStepOf(t) ==
    \/ \E opened \in BOOLEAN, io_ok \in BOOLEAN : WorkerStart(t, opened, io_ok)
    \/ \E ok \in BOOLEAN, k \in SearchCounts : SearchResponse(t, ok, k)
    \/ \E io_ok \in BOOLEAN : SearchSleepWake(t, io_ok)
    \/ EnrollStarts(t)
    \/ \E o \in SearchOutcomes, io_ok \in BOOLEAN : EnrollResponse(t, o, io_ok)
    \/ \E io_ok \in BOOLEAN : CooldownWake(t, io_ok)

Fairness ==
    /\ WF_vars(LoginStep)
    /\ \A t \in all_terms : WF_vars(WorkerStepOf(t))
    /\ WF_vars(PollRunning)
    /\ WF_vars(MainReturns)

FairSpec == Init /\ [][Next]_vars /\ Fairness

(***************************************************************************)
(* Claims.                                                                 *)
(***************************************************************************)
Polling == {"spawned", "search", "search_sleep", "checked", "enroll", "cooldown"}

\* The interrupt arrived during the current phase (shutdown_signal found
\* is_running true and is polling it).
SignalDuringPhase == spc = "poll"

\* C1 as stated: once stop_flag is set, a term worker that was running then
\* starts at most one more portal call (search_courses or
\* get_enrollment_count).
C1_AtMostOneCallAfterStop ==
    SignalDuringPhase =>
        \A t \in all_terms : after_stop_search[t] + after_stop_enroll[t] <= 1

\* C1 amended: once stop_flag is set, a term worker starts at most one more
\* get_enrollment_count call and at most one more search_courses call per
\* configured search query, and a worker that stands past its stop check with
\* stop_flag set has started no call since the flag was set (the next check
\* ends it).
C1_CallsAfterStopBounded ==
    \A t \in all_terms :
        /\ after_stop_enroll[t] <= 1
        /\ after_stop_search[t] <= search_query_len(t)
        /\ (stop_flag /\ wpc[t] = "checked") =>
               (after_stop_enroll[t] = 0 /\ after_stop_search[t] = 0)

\* C1 witness: a worker that started one get_enrollment_count call and a
\* full round of search_courses calls after stop_flag was set.
C1_Witness ==
    /\ SignalDuringPhase
    /\ after_stop_enroll["FA22"] = 1
    /\ after_stop_search["FA22"] = search_query_len("FA22")

\* C2: no term worker has a portal call in flight, or is anywhere between its
\* first and its last poll, while is_running is false.
C2_PollsOnlyWhileRunning ==
    \A t \in all_terms : wpc[t] \in Polling => is_running

\* C2 witness: a call in flight in a phase that follows a Session Recovery
\* after an earlier phase.
C2_Witness ==
    /\ is_running
    /\ wpc["FA22"] = "enroll"
    /\ wpc["WI23"] = "search"
    /\ csv["WI23"]

\* C3 as stated: if the interrupt sets stop_flag while term workers are
\* running, then eventually every worker has returned, is_running is false,
\* run_tracker has exited on the stop flag without another Session Recovery,
\* and shutdown_signal has completed.
C3_GracefulShutdown ==
    SignalDuringPhase ~>
        (/\ spc = "done"
         /\ ~is_running
         /\ tpc = "done"
         /\ exit_why = "stopped"
         /\ \A t \in all_terms : wpc[t] = "unspawned")

\* Some Session Recovery has returned success.
SomeRecoverySucceeded ==
    \/ tpc \in {"phase", "relogin", "dead"}
    \/ tpc = "done" /\ exit_why # "init_login_failed"

\* A term worker spawned after the last successful recovery has not returned.
SomeWorkerNotReturned ==
    \E t \in all_terms : wpc[t] \notin {"unspawned", "returned"}

\* C4: GET /health answers 200 with api = is_running, and is_running is true
\* exactly when a Session Recovery has succeeded and the workers spawned
\* after it have not all returned.
C4_HealthIffPhase ==
    /\ get_health.status = 200
    /\ get_health.api = is_running
    /\ get_health.api <=> (SomeRecoverySucceeded /\ SomeWorkerNotReturned)

\* C4 witness: /health answers true while one worker has returned and the
\* other is still polling.
C4_Witness ==
    /\ get_health = [status |-> 200, api |-> TRUE]
    /\ wpc["WI23"] = "returned"
    /\ wpc["FA22"] = "cooldown"

\* C5: stop_flag starts false, only the interrupt handler writes it, and it
\* never goes from true to false.
C5_StopFlagMonotone ==
    /\ stop_flag = FALSE
    /\ [][/\ stop_flag => stop_flag'
          /\ stop_flag' # stop_flag => (spc = "wait" /\ spc' # "wait")]_vars

\* C5 witness: the flag is set and the tracker has returned because of it.
C5_Witness ==
    /\ stop_flag
    /\ tpc = "done"
    /\ exit_why = "stopped"

\* C6: when the initial try_login fails, run_tracker returns with is_running
\* never set, no term worker spawned and no CSV file created.
C6_InitialLoginFailure ==
    (tpc = "init_login" \/ (tpc = "done" /\ exit_why = "init_login_failed")) =>
        /\ ~is_running
        /\ \A t \in all_terms : wpc[t] = "unspawned" /\ ~csv[t]

\* C6 witness: the tracker has returned after a failed initial login that
\* was not cut short by the stop flag.
C6_Witness ==
    /\ tpc = "done"
    /\ exit_why = "init_login_failed"
    /\ ~stop_flag

\* C7 as stated: is_running implies the tracker task is alive.
C7_RunningImpliesTrackerAlive ==
    (is_running /\ ~exited) => tpc \notin {"done", "dead"}

\* C8 as stated: a worker returns because of failing portal calls only when
\* fail_count > 12 was seen at the head of an inner iteration.
C8_OnlyThresholdEndsWorker ==
    \A t \in all_terms :
        (\/ exit_reason[t] = "fail"
         \/ exit_reason[t] = "empty" /\ search_err[t])
            => fail_count[t] > MAX_NUM_SEARCH_REQUESTS

\* C8 amended: the threshold is the only way failing get_enrollment_count
\* calls end a worker: each answer that is an error or has no section adds
\* one to fail_count, each answer with a section resets it to 0, and a
\* worker returns for too many failures only from the head of an inner
\* iteration that found fail_count > 12 with both stop flags unset.  (A
\* search round whose search_courses calls all error or return nothing ends
\* the worker at once.)
C8_EnrollFailuresThreshold ==
    /\ [](\A t \in all_terms :
             exit_reason[t] = "fail" => fail_count[t] > MAX_NUM_SEARCH_REQUESTS)
    /\ [][\A t \in all_terms :
             /\ (wpc[t] = "enroll" /\ wpc'[t] = "cooldown") =>
                    fail_count'[t] = IF last_enroll'[t] = "some"
                                     THEN 0 ELSE fail_count[t] + 1
             /\ (exit_reason[t] # "fail" /\ exit_reason'[t] = "fail") =>
                    /\ wpc[t] \in {"search_sleep", "cooldown"}
                    /\ fail_count[t] > MAX_NUM_SEARCH_REQUESTS
                    /\ ~stop_flag /\ ~loop_stop
             /\ (wpc[t] \in Polling /\ fail_count'[t] # fail_count[t]) =>
                    \/ wpc[t] = "enroll"
                    \/ wpc'[t] \notin Polling]_vars

\* C8 witness: a worker has returned for too many failures.
C8_Witness ==
    \E t \in all_terms : exit_reason[t] = "fail" /\ wpc[t] = "returned"

\* What validate answers for a credential string, split as its holder does.
validate_credential(d, n, cred) ==
    LET sp == split_once(cred)
    IN IF Len(sp) = 2 THEN check_key(d, n, sp[1], sp[2]) ELSE "unsplittable"

\* C9: the credential generate_api_key has just returned validates as Valid,
\* and so does every key issued at this instant and still stored, whatever
\* keys came before or after it.
C9_IssuedKeyValidates ==
    /\ klast.op = "issue" => validate_credential(db, now, klast.cred) = "Valid"
    /\ \A i \in 1 .. Len(db) :
           db[i].created_at = now =>
               validate_credential(db, now, format_key(db[i].prefix, db[i].token))
                   = "Valid"

\* C9 witness: a key has just been issued next to an older key that has the
\* same token.
C9_Witness ==
    /\ klast.op = "issue"
    /\ Len(db) = 2
    /\ db[1].token = db[2].token
    /\ db[1].created_at < db[2].created_at

RowsOf(d, prefix) == {i \in 1 .. Len(d) : d[i].prefix = prefix}

\* C10: delete_by_prefix(p) returns true iff exactly one row (p's) was
\* deleted; afterwards validate(p, t) is NotFound for every t, every other
\* row is unchanged and validates as before, and deleting p again returns
\* false.
C10_DeleteByPrefix ==
    [][klast'.op = "delete" =>
         LET p == klast'.prefix
         IN /\ klast'.ret <=> (Len(db) - Len(db') = 1 /\ Cardinality(RowsOf(db, p)) = 1)
            /\ RowsOf(db', p) = {}
            /\ \A t \in Uuids : check_key(db', now', p, t) = "NoPrefixOrKeyFound"
            /\ db' = SelectSeq(db, LAMBDA r : r.prefix # p)
            /\ \A q \in Uuids \ {p}, t \in Uuids :
                   check_key(db', now', q, t) = check_key(db, now, q, t)
            /\ ~delete_by_prefix(db', p).ret]_vars

\* C10 witness: a delete has returned true and another key is still stored.
C10_Witness ==
    /\ klast.op = "delete"
    /\ klast.ret
    /\ Len(db) = 1
    /\ db[1].prefix # klast.prefix

\* C11 as stated: every stored key has expires_at = created_at + 365 days,
\* and validate of its (prefix, token) returns Expired when expires_at < now
\* and Valid otherwise.
C11_ExpiredIffPastExpiry ==
    \A i \in 1 .. Len(db) :
        /\ db[i].expires_at = db[i].created_at + Duration_days(KEY_LIFETIME_DAYS)
        /\ check_key(db, now, db[i].prefix, db[i].token) =
               IF db[i].expires_at < now THEN "ExpiredKey" ELSE "Valid"

\* C12: for every stored prefix p and every token that is not p's (another
\* stored key's token included), validate returns NotFound, which is what it
\* returns for a prefix that is not stored, whether p's key is expired or not.
C12_WrongTokenNotFound ==
    \A i \in 1 .. Len(db), t \in Uuids :
        t # db[i].token =>
            /\ check_key(db, now, db[i].prefix, t) = "NoPrefixOrKeyFound"
            /\ \A q \in Uuids :
                   RowsOf(db, q) = {} =>
                       check_key(db, now, q, t) = check_key(db, now, db[i].prefix, t)

\* C12 witness: two keys with different tokens are stored, the older one
\* expired and the newer one valid.
C12_Witness ==
    /\ Len(db) = 2
    /\ db[1].token # db[2].token
    /\ check_key(db, now, db[1].prefix, db[1].token) = "ExpiredKey"
    /\ check_key(db, now, db[2].prefix, db[2].token) = "Valid"

RECURSIVE SumRange(_, _, _)
\* The sum of s[lo] .. s[hi].
SumRange(s, lo, hi) ==
    IF lo > hi THEN 0
    ELSE IF lo = hi THEN s[lo]
    ELSE LET mid == (lo + hi) \div 2
         IN SumRange(s, lo, mid) + SumRange(s, mid + 1, hi)

\* min(N, 2000)
MinRecent(n) == IF n < MAX_RECENT_REQUESTS THEN n ELSE MAX_RECENT_REQUESTS

LayerRuns(l) == current_layer = l /\ (passed' # passed \/ rpc' = "answered")

InSeq(x, s) == \E i \in 1 .. Len(s) : s[i] = x

\* C14: on every route under /live/:term the readiness layer runs before
\* the other layers of the nest and before the handler; when it runs with
\* is_running false it answers 500 and the handler is not invoked, and
\* with is_running true it passes the request on.
C14_ReadinessLayer ==
    /\ [](req.route \in webreg_router =>
             /\ (calls # <<>> \/ resp.by \in {"term", "cookie", "handler"})
                    => InSeq("running", passed)
             /\ \A i \in 1 .. Len(passed) :
                    passed[i] \in {"term", "cookie"} =>
                        \E j \in 1 .. i - 1 : passed[j] = "running"
             /\ resp.by = "running" => (resp.status = 500 /\ calls = <<>>))
    /\ [][LayerRuns("running") =>
             /\ req.route \in webreg_router
             /\ is_running =>
                    /\ passed' = Append(passed, "running")
                    /\ resp' = NoResponse
             /\ ~is_running =>
                    /\ resp'.status = 500
                    /\ resp'.by = "running"
                    /\ rpc' = "answered"
                    /\ passed' = passed
                    /\ calls' = <<>>]_vars

\* C14 witness: a request for a route under /live/:term that carries all the
\* layers has been answered 500 by the readiness layer.
C14_Witness ==
    /\ req.route = "/drop_section"
    /\ rpc = "answered"
    /\ resp.status = 500
    /\ resp.by = "running"
    /\ auth_feature

\* C15: the routes that carry the term layer are those of parsed_router;
\* on them the handler runs only after the layer has passed the request on,
\* the layer passes it on iff the upper-cased :term value is a key of terms,
\* and answers 404 otherwise, the handler not being invoked.
C15_TermLayer ==
    /\ [](/\ (req.route \in parsed_router /\ calls # <<>>) => InSeq("term", passed)
          /\ resp.by = "term" => (resp.status = 404 /\ calls = <<>>))
    /\ [][LayerRuns("term") =>
             LET is_key == req.term \in {<<"F", "A", "2", "2">>, <<"f", "a", "2", "2">>,
                                         <<"w", "I", "2", "3">>}
             IN /\ req.route \in parsed_router
                /\ is_key <=> passed' = Append(passed, "term")
                /\ is_key => resp' = NoResponse
                /\ ~is_key =>
                       /\ resp'.status = 404
                       /\ resp'.by = "term"
                       /\ rpc' = "answered"
                       /\ calls' = <<>>]_vars

\* C15 witness: the handler of a route with the term layer has run for a
\* request whose :term is fa22.
C15_Witness ==
    /\ req.route = "/course_info"
    /\ req.term = <<"f", "a", "2", "2">>
    /\ InSeq("term", passed)
    /\ resp.by = "handler"

\* The request for the route and the :term value has been answered after the
\* readiness layer passed it on (is_running was true), no portal call of
\* the handler having failed.
Served(route, term) ==
    /\ rpc = "answered"
    /\ req.route = route
    /\ req.term = term
    /\ InSeq("running", passed)
    /\ resp.portal # "err"

\* C16 as stated: with FA22 configured and is_running true,
\* GET /live/fa22/terms is answered 200 and GET /live/xx99/terms 404.
C16_TermsRouteValidatesTerm ==
    /\ Served("/terms", <<"f", "a", "2", "2">>) => resp.status = 200
    /\ Served("/terms", <<"x", "x", "9", "9">>) => resp.status = 404

\* C16 amended: /live/:term/terms carries no term layer: with is_running
\* true, GET /live/fa22/terms and GET /live/xx99/terms are both answered by
\* get_all_terms, 200 when its portal call succeeds; it is on the routes
\* with the term layer that xx99 is answered 404 and fa22 reaches the
\* handler (GET /live/xx99/course_info, GET /live/fa22/course_info).
C16_TermsRouteIgnoresTerm ==
    /\ \A term \in PathTerms :
           Served("/terms", term) =>
               /\ resp.status = 200
               /\ resp.by = "handler"
               /\ calls = <<Call("handler", "", "")>>
    /\ Served("/course_info", <<"x", "x", "9", "9">>) =>
           /\ resp.status = 404
           /\ resp.by = "term"
           /\ calls = <<>>
    /\ Served("/course_info", <<"f", "a", "2", "2">>) =>
           /\ resp.status = 200
           /\ resp.by = "handler"

\* C16 witness: GET /live/xx99/terms has been answered 200 by the handler.
C16_Witness ==
    /\ Served("/terms", <<"x", "x", "9", "9">>)
    /\ resp.status = 200
    /\ resp.by = "handler"

\* The places of the first '#' of a text (none or one).
FirstHash(t) ==
    {i \in 1 .. Len(t) : t[i] = "#" /\ \A j \in 1 .. i - 1 : t[j] # "#"}

\* C17: the API-key layer passes a request on only if its Authorization
\* header is "Bearer <p>#<k>", p ending at the first '#', with
\* check_key(p, k) = Valid, and then p is put into the extensions; every
\* other request is answered 401, the handler not being run: no bearer
\* header, no '#', NotFound and Expired each with its own text.
C17_AuthLayer ==
    /\ [](/\ (auth_feature /\ (calls # <<>> \/ resp.by \notin {"none", "auth"}))
                 => (passed # <<>> /\ passed[1] = "auth")
          /\ resp.by = "auth" => (resp.status = 401 /\ calls = <<>> /\ ext = {}))
    /\ [][LayerRuns("auth") =>
             LET h == req.authorization
                 bearer == /\ h.kind = "text"
                           /\ Len(h.value) >= Len(Bearer)
                           /\ SubSeq(h.value, 1, Len(Bearer)) = Bearer
                 t == SubSeq(h.value, Len(Bearer) + 1, Len(h.value))
                 at == FirstHash(t)
                 i == CHOOSE i \in at : TRUE
                 p == SubSeq(t, 1, i - 1)
                 k == SubSeq(t, i + 1, Len(t))
                 said(text) == /\ resp' = [status |-> 401, error |-> text,
                                           by |-> "auth", portal |-> "none"]
                               /\ rpc' = "answered"
                               /\ passed' = passed
                               /\ ext' = {}
                               /\ calls' = <<>>
             IN IF ~bearer
                THEN said("You didn't provide a bearer token.")
                ELSE IF at = {}
                THEN said("Token is in invalid format (missing separator).")
                ELSE CASE check_key(db, now, p, k) = "Valid" ->
                            /\ passed' = Append(passed, "auth")
                            /\ ext' = {p}
                            /\ resp' = NoResponse
                       [] check_key(db, now, p, k) = "NoPrefixOrKeyFound" ->
                            said("Token is invalid or the key doesn't exist.")
                       [] check_key(db, now, p, k) = "ExpiredKey" ->
                            said("Token is expired.")]_vars

\* C17 witness: the handler has run for a request with a valid key, whose
\* prefix is in the extensions.
C17_Witness ==
    /\ auth_feature
    /\ req.authorization.value = Bearer \o <<"b", "#", "b">>
    /\ ext = {<<"b">>}
    /\ resp.by = "handler"

\* The first place of the schedule fetched that has the section id asked
\* for with the status st (0: none).
FirstWith(st) ==
    LET at == {i \in 1 .. Len(fetched.schedule) :
                   /\ fetched.schedule[i].section_id = req.section_id
                   /\ fetched.schedule[i].enrolled_status = st}
    IN IF at = {} THEN 0 ELSE CHOOSE i \in at : \A j \in at : i <= j

\* C18: post_drop_section fetches the schedule first; it issues the drop
\* call only if the schedule has the section id of the body as Enrolled or
\* Waitlist, with the add-type Enroll or Waitlist of that entry; if the
\* section is absent or only Planned or Unknown it answers 404 and issues
\* no drop call; if the fetch fails it answers the mapped portal error and
\* issues no drop call.
C18_DropSection ==
    LET e == FirstWith("Enrolled")
        w == FirstWith("Waitlist")
        drops == {i \in 1 .. Len(calls) : calls[i].op = "drop_section"}
    IN /\ drops \subseteq {2}
       /\ (req.route = "/drop_section" /\ calls # <<>>) =>
              calls[1] = Call("get_schedule", "", "")
       /\ drops # {} => (fetched.known /\ fetched.ok /\ (e > 0 \/ w > 0))
       /\ (fetched.known /\ ~fetched.ok) =>
              /\ drops = {}
              /\ rpc = "answered"
              /\ resp.by = "handler"
              /\ resp.status \in ErrorStatuses
       /\ (fetched.known /\ fetched.ok /\ e = 0 /\ w = 0) =>
              /\ drops = {}
              /\ rpc = "answered"
              /\ resp.by = "handler"
              /\ resp.status = 404
       /\ (fetched.known /\ fetched.ok /\ (e > 0 \/ w > 0)) =>
              calls[2] = Call("drop_section",
                              IF e > 0 /\ (w = 0 \/ e < w) THEN "Enroll" ELSE "Waitlist",
                              req.section_id)

\* C18 witness: the drop call has been issued as Waitlist for a section that
\* the schedule also lists as Planned, before the waitlisted entry.
C18_Witness ==
    /\ Len(calls) = 2
    /\ calls[2] = Call("drop_section", "Waitlist", "079911")
    /\ fetched.schedule[1] = [section_id |-> "079911", enrolled_status |-> "Planned"]

\* The cookie server's answers that try_login counts as a failure at once;
\* a "cookie" answer is counted when login_with_cookies rejects the cookies.
CookieErrors == {"send_err", "text_err"}

\* C19: the first delay try_login sleeps is BASE_DELAY; each later delay is
\* 1.2 times the one before when the request between them was counted as a
\* failure and the same delay when it was not, so that the delay is
\* BASE_DELAY * 1.2^n with n the failures counted so far; with a cookie
\* server that errors 3 times and then gives cookies, the delays are
\* 8 s, 9.6 s, 11.52 s and 13.824 s in that order (exponents 0, 1, 2, 3)
\* and try_login, once it has returned, has succeeded.
C19_BackoffDelays ==
    LET s == login_log.sleeps
        a == login_log.answers
    IN /\ Len(a) \in {Len(s), Len(s) - 1}
       /\ s # <<>> => s[1] = 8000000
       /\ \A i \in 1 .. Len(s) - 1 :
              5 * s[i + 1] = (IF a[i] = "no_cookie" THEN 5 ELSE 6) * s[i]
       /\ (/\ Len(a) >= 4
           /\ \A i \in 1 .. 3 : a[i] \in CookieErrors
           /\ a[4] = "cookie")
          => /\ SubSeq(s, 1, 4) = <<8000000, 9600000, 11520000, 13824000>>
             /\ (Len(s) = 4 /\ lpc = "idle") => (tpc = "phase" /\ is_running)

\* C19 witness: the cookie server has errored 3 times and then given
\* cookies, and the recovery has succeeded.
C19_Witness ==
    /\ login_log.answers = <<"send_err", "text_err", "send_err", "cookie">>
    /\ Len(login_log.sleeps) = 4
    /\ tpc = "phase"
    /\ is_running

RECURSIVE split(_, _)
\* The fields of a text between the occurrences of the character ch.
split(s, ch) ==
    LET at == {i \in 1 .. Len(s) : s[i] = ch}
    IN IF at = {}
       THEN <<s>>
       ELSE LET i == CHOOSE i \in at : \A j \in at : i <= j
            IN <<SubSeq(s, 1, i - 1)>> \o split(SubSeq(s, i + 1, Len(s)), ch)

\* The row written, without its line terminator, read back as CSV fields.
RowFields == split(SubSeq(row_line, 1, Len(row_line) - 1), ",")

\* The instructors' names, every comma of a name replaced by a semicolon,
\* joined with " & ".
ProfOf(c) ==
    join([i \in 1 .. Len(c.all_instructors) |->
              [j \in 1 .. Len(c.all_instructors[i]) |->
                   IF c.all_instructors[i][j] = "," THEN ";"
                   ELSE c.all_instructors[i][j]]],
         <<" ", "&", " ">>)

C21_PollingCookiesFromRecoveryOnly ==
    /\ [](/\ cookies.wrapper \in {"To be loaded later", CookieServerCookies}
          /\ cookies.wrapper # ClientCookies
          /\ cookies.c_wrapper = "To be determined by the user's cookies."
          /\ \A i \in 1 .. Len(calls) :
                 /\ calls[i].cookies = ClientCookies
                        <=> calls[i].wrapper = "c_wrapper"
                 /\ calls[i].wrapper = "c_wrapper"
                        <=> req.route \in cookie_router
                 /\ calls[i].wrapper = "wrapper"
                        => calls[i].cookies = cookies.wrapper)
    /\ [][/\ cookies' # cookies =>
                /\ lpc = "cookie_req"
                /\ lpc' = "reg_sleep"
                /\ cookies' = [cookies EXCEPT !.wrapper = CookieServerCookies]
                /\ UNCHANGED server_vars
          /\ ~(UNCHANGED server_vars) => cookies' = cookies]_vars

\* C21 witness: a handler of ww_cookies.rs has called the portal with the
\* client's cookies while the polling wrapper holds the cookie server's.
C21_Witness ==
    /\ req.route = "/schedule"
    /\ calls # <<>>
    /\ calls[1].wrapper = "c_wrapper"
    /\ calls[1].cookies = ClientCookies
    /\ cookies.wrapper = CookieServerCookies

\* C22: for a term whose should_save is false no CSV file is created and
\* no row is written.
C22_CsvOnlyWhenShouldSave ==
    \A t \in all_terms :
        ~should_save(t) => (~csv[t] /\ last_enroll[t] # "some")

\* C23: edit_description(p, d) returns true iff exactly one row, that of
\* prefix p, was updated; that row's description becomes d, its prefix,
\* token and timestamps stay, and every other row stays as it was.
C23_EditDescription ==
    [][klast'.op = "edit" =>
         LET p == klast'.prefix
             d == klast'.desc
         IN /\ klast'.ret <=> Cardinality(RowsOf(db, p)) = 1
            /\ Cardinality(RowsOf(db, p)) <= 1
            /\ Len(db') = Len(db)
            /\ \A i \in 1 .. Len(db) :
                   IF db[i].prefix = p
                   THEN /\ db'[i].description = d
                        /\ db'[i].prefix = db[i].prefix
                        /\ db'[i].token = db[i].token
                        /\ db'[i].created_at = db[i].created_at
                        /\ db'[i].expires_at = db[i].expires_at
                   ELSE db'[i] = db[i]
            /\ now' = now]_vars

\* C23 witness: an edit has returned true, changed the description of the
\* first of two keys and left the other key's description different.
C23_Witness ==
    /\ klast.op = "edit"
    /\ klast.ret
    /\ Len(db) = 2
    /\ db[1].prefix = klast.prefix
    /\ db[1].description = "hello"
    /\ db[2].description = "NULL"

\* C24: the list of keys is the rows stored, in the order of their issue:
\* an issue puts its key last, a delete takes the rows of its prefix out
\* and keeps the order of the others, an edit keeps places, and list_all
\* returns the rows stored at that time, one entry per row, in that order.
C24_ListAllInIssueOrder ==
    /\ [][/\ (klast'.op = "issue" /\ Len(db') = Len(db) + 1) =>
                /\ get_all_prefixes(db') =
                       Append(get_all_prefixes(db), split_once(klast'.cred)[1])
                /\ SubSeq(get_all_entries(db'), 1, Len(db)) = get_all_entries(db)
          /\ klast'.op = "delete" =>
                get_all_prefixes(db') =
                    SelectSeq(get_all_prefixes(db), LAMBDA q : q # klast'.prefix)
          /\ klast'.op = "edit" => get_all_prefixes(db') = get_all_prefixes(db)
          /\ klast'.op = "list" =>
                /\ db' = db
                /\ Len(klast'.entries) = Len(db)
                /\ Len(klast'.prefixes) = Len(db)
                /\ \A i \in 1 .. Len(db) :
                       /\ klast'.entries[i] = db[i]
                       /\ klast'.prefixes[i] = db[i].prefix]_vars
    /\ [](\A i, j \in 1 .. Len(db) : i < j => db[i].created_at <= db[j].created_at)

\* C24 witness: the list has been taken of two keys after a third, issued
\* before them, was deleted and one of them was edited.
C24_Witness ==
    /\ klast.op = "list"
    /\ klast.prefixes = <<<<"b">>, <<"c">>>>
    /\ klast.entries[1].description = "hello"
    /\ klast.entries[1].created_at < klast.entries[2].created_at

\* The places of a worker that has been polled and has not returned.
Alive == {"spawned", "search", "search_sleep", "checked", "enroll", "cooldown"}

\* C25: a phase starts with one worker spawned per configured term; the
\* loop-local flag is set exactly from the return of the first worker on;
\* once it is set no remaining worker gets past the check at the head of an
\* inner iteration; is_running is cleared, and Session Recovery started, only
\* in the step in which the last worker of the phase returns.
C25_PhaseDrain ==
    /\ [](/\ tpc = "phase" =>
                /\ \A t \in all_terms : wpc[t] \in Alive \cup {"returned"}
                /\ loop_stop <=> \E t \in all_terms : wpc[t] = "returned"
                /\ \E t \in all_terms : wpc[t] \in Alive
                /\ is_running
                /\ lpc = "idle"
          /\ tpc = "relogin" =>
                /\ \A t \in all_terms : wpc[t] = "unspawned"
                /\ ~is_running)
    /\ [][/\ (tpc # "phase" /\ tpc' = "phase") =>
                /\ \A t \in all_terms : wpc'[t] = "spawned"
                /\ ~loop_stop'
          /\ \A t \in all_terms :
                (tpc = "phase" /\ loop_stop /\ wpc[t] # "checked") =>
                    wpc'[t] # "checked"
          /\ \A t \in all_terms :
                (tpc = "phase" /\ loop_stop /\ wpc[t] \in {"search_sleep", "cooldown"}
                 /\ nres[t] > 0 /\ wpc'[t] # wpc[t]
                 /\ ~(wpc[t] = "search_sleep" /\ qi[t] < search_query_len(t))) =>
                    \/ tpc' = "dead"
                    \/ wpc'[t] = "returned"
                    \/ tpc' # "phase"
          /\ ((is_running /\ ~is_running') \/ (lpc = "idle" /\ lpc' # "idle")) =>
                /\ tpc = "phase"
                /\ \E t \in all_terms :
                       /\ wpc[t] \in {"search_sleep", "cooldown"}
                       /\ \A u \in all_terms \ {t} : wpc[u] = "returned"
                /\ ~is_running'
                /\ \A t \in all_terms : wpc'[t] = "unspawned"]_vars

\* C25 witness: one worker has returned, the flag is set, and the other
\* worker has a get_enrollment_count call in flight that it sent before.
C25_Witness ==
    /\ tpc = "phase"
    /\ loop_stop
    /\ wpc["WI23"] = "returned"
    /\ wpc["FA22"] = "enroll"
    /\ is_running

\* The step in which login_with_cookies returns true: the validation search
\* of the last term left has answered with courses, with fewer than
\* MAX_NUM_REGISTER tries counted.
RecoverySucceeds ==
    /\ lpc = "validate"
    /\ Cardinality(vleft) = 1
    /\ num_tries < 25
    /\ lpc' = "idle"

\* C26: from the end of a phase with stop_flag unset until Session Recovery
\* returns, is_running is false and no worker exists; workers are spawned
\* and is_running is set true only in the step in which a Session Recovery
\* returns success; when it returns failure the tracker exits, and from then
\* on is_running is false and no worker is spawned.
C26_RecoveryGatesNextPhase ==
    /\ [](/\ tpc = "relogin" =>
                /\ ~is_running
                /\ lpc # "idle"
                /\ \A t \in all_terms : wpc[t] = "unspawned"
          /\ exit_why = "relogin_failed" =>
                /\ tpc = "done"
                /\ ~is_running
                /\ \A t \in all_terms : wpc[t] = "unspawned")
    /\ [][/\ (tpc = "phase" /\ tpc' # "phase" /\ tpc' # "dead" /\ ~stop_flag) =>
                tpc' = "relogin"
          /\ ((~is_running /\ is_running')
              \/ \E t \in all_terms : wpc[t] = "unspawned" /\ wpc'[t] # "unspawned") =>
                /\ tpc \in {"init_login", "relogin"}
                /\ RecoverySucceeds
                /\ tpc' = "phase"
          /\ (tpc = "relogin" /\ tpc' # "relogin") =>
                \/ RecoverySucceeds /\ tpc' = "phase" /\ is_running'
                \/ /\ ~RecoverySucceeds
                   /\ tpc' = "done"
                   /\ exit_why' = "relogin_failed"
                   /\ ~is_running'
          /\ tpc = "done" => (tpc' = "done" /\ is_running' = is_running)]_vars

\* C26 witness: a Session Recovery that followed a phase has used up its
\* failures with stop_flag unset, and the tracker has exited.
C26_Witness ==
    /\ exit_why = "relogin_failed"
    /\ ~stop_flag
    /\ ~is_running
    /\ csv["FA22"]

\* Steps of try_login: the request to the cookie server fails in transport
\* (send or body), and login_with_cookies returns false.
TransportFailure ==
    \E o \in {"send_err", "text_err"} : CookieResponse(o)

RegistrationFailed ==
    /\ lpc \in {"register", "validate"}
    /\ lpc' \in {"backoff", "idle"}
    /\ tpc' # "phase"

\* try_login returns false: run_tracker ends from a login.
ReturnsFailure ==
    /\ tpc \in {"init_login", "relogin"}
    /\ tpc' = "done"

\* C27: a transport failure and a failed registration each add exactly one
\* to num_failures, an answer whose cookie field is not a string leaves it
\* as it is, nothing else changes it during a login, and try_login returns
\* false exactly in the step of the 31st counted failure or when stop_flag
\* is found set after the backoff sleep.
C27_LoginFailureCounter ==
    [][/\ (TransportFailure \/ RegistrationFailed) =>
              IF num_failures < MAX_NUM_LOGIN_FAILURES
              THEN /\ num_failures' = num_failures + 1
                   /\ lpc' = "backoff"
                   /\ ~ReturnsFailure
              ELSE ReturnsFailure
       /\ CookieResponse("no_cookie") =>
              /\ num_failures' = num_failures
              /\ lpc' = "backoff"
              /\ ~ReturnsFailure
       /\ (lpc # "idle" /\ lpc' # "idle"
           /\ ~TransportFailure /\ ~RegistrationFailed) =>
              num_failures' = num_failures
       /\ ReturnsFailure <=>
              \/ /\ TransportFailure \/ RegistrationFailed
                 /\ num_failures = 30
              \/ /\ lpc = "backoff"
                 /\ lpc' # "backoff"
                 /\ stop_flag]_vars

\* C27 witness: thirty failures are counted, among them a failed
\* registration, and try_login waits before its last attempt.
C27_Witness ==
    /\ num_failures = 30
    /\ lpc = "backoff"
    /\ ~stop_flag
    /\ tpc = "init_login"
    /\ cookies.wrapper = CookieServerCookies

\* The step in which an iteration of login_with_cookies is successful: all
\* terms were registered and the validation search of the last term left
\* answers with courses.
IterationSuccessful ==
    /\ lpc = "validate"
    /\ \E t \in all_terms : vleft = {t} /\ ValidateResponse(t, "some")

\* C28: login_with_cookies returns true (a phase starts) exactly in the step
\* in which an iteration is successful.
C28_TrueIffIterationSuccessful ==
    [][IterationSuccessful <=> (tpc # "phase" /\ tpc' = "phase")]_vars

\* C29: an iteration of login_with_cookies that ends without success (the
\* loop goes back to its head from the registration or from a validation
\* search) adds one to num_tries.
C29_FailedIterationCounted ==
    [][(lpc \in {"register", "validate"} /\ lpc' = "reg_sleep") =>
           num_tries' = num_tries + 1]_vars

\* C30: the validation starts only from a successful register_all_terms,
\* with every configured term to be searched; a term leaves the terms still
\* to be searched only by a search that returned courses; a search that
\* errors or returns nothing ends the iteration without success whatever
\* terms were searched before; and Session Recovery reports success only in
\* the step in which the last term still to be searched returns courses.
C30_SuccessNeedsEveryTerm ==
    /\ [](lpc = "validate" => (vleft # {} /\ vleft \subseteq all_terms))
    /\ [][/\ (lpc # "validate" /\ lpc' = "validate") =>
                /\ RegisterResponse(TRUE)
                /\ vleft' = all_terms
          /\ (lpc = "validate" /\ lpc' = "validate") =>
                \/ vleft' = vleft
                \/ \E t \in vleft : /\ ValidateResponse(t, "some")
                                    /\ vleft' = vleft \ {t}
          /\ \A t \in all_terms : \A o \in {"err", "empty"} :
                ValidateResponse(t, o) =>
                    /\ lpc' # "validate"
                    /\ tpc' # "phase"
                    /\ ~is_running'
          /\ (tpc # "phase" /\ tpc' = "phase") =>
                \E t \in all_terms : /\ lpc = "validate"
                                     /\ vleft = {t}
                                     /\ ValidateResponse(t, "some")]_vars

\* C30 witness: in a Session Recovery after a phase, after two counted
\* failed iterations, one term's search has returned courses and the other
\* term's search is awaited.
C30_Witness ==
    /\ tpc = "relogin"
    /\ lpc = "validate"
    /\ vleft = {"WI23"}
    /\ num_tries = 2

\* C31: a delay of Session Recovery (the backoff sleep of try_login, the
\* GENERAL_DELAY of the register loop) that ends with stop_flag set is
\* followed by no request to the cookie server or the portal: try_login
\* returns false in that step.
C31_StopCheckedAfterEveryDelay ==
    [][(stop_flag /\ lpc \in {"backoff", "reg_sleep"} /\ lpc' # lpc) =>
           /\ lpc' \notin {"cookie_req", "register", "validate"}
           /\ tpc' = "done"]_vars

\* The arguments of the add_stat calls made so far, the one under way
\* included, and the number of them whose time has been added.
started == IF apc = "idle" THEN samples ELSE Append(samples, time_of_req)

time_added == Len(samples) + (IF apc = "locked" THEN 1 ELSE 0)

C33_TimingValidatesTerm ==
    (req.route = "/timing/:term" /\ rpc = "answered" /\ resp.by = "handler") =>
        resp.status = (IF contains_key(to_uppercase(req.term)) THEN 200 ELSE 404)

\* The keys of a JSON object given as key-value pairs.
Keys(obj) == {kv[1] : kv \in obj}

\* The kinds of error that carry additional detail.
HasDetail(e) ==
    CASE e.kind \in {"UrlParseError", "SessionNotValid", "BadTimeError"} -> FALSE
      [] e.kind = "BadStatusCode" -> e.opt # <<>>
      [] OTHER -> TRUE

\* The body of every error response carries "error", and "context" exactly
\* when the error has additional detail.
ErrorBody ==
    /\ "error" \in Keys(api_response.body)
    /\ Keys(api_response.body) \subseteq {"error", "context"}
    /\ "context" \in Keys(api_response.body) <=> HasDetail(api_error)

\* The status of each kind but WrapperParsingError.
KindStatus(e) ==
    CASE e.kind \in {"RequestError", "UrlParseError", "BadTimeError"} -> 500
      [] e.kind \in {"InputError", "WebRegError"} -> 400
      [] e.kind = "SerdeError" -> 418
      [] e.kind = "SectionIdNotFound" -> 404
      [] e.kind = "SessionNotValid" -> 401
      [] e.kind = "BadStatusCode" -> e.code

\* C34 as stated: the portal errors are the listed kinds, an error in
\* converting the portal's answer being a deserialize error, answered 418.
C34_StatusByKind ==
    (api_response # NoApiResponse /\ api_error.type = "WebReg") =>
        /\ api_response.status =
               (IF api_error.kind = "WrapperParsingError"
                THEN 418
                ELSE KindStatus(api_error))
        /\ ErrorBody

\* C34 amended: as stated for the listed kinds, with deserialize errors
\* being those of turning the answer's text into JSON; an error in
\* converting the answer's JSON into an object is answered 500.
C34_StatusByKindOrParsing ==
    (api_response # NoApiResponse /\ api_error.type = "WebReg") =>
        /\ api_response.status =
               (IF api_error.kind = "WrapperParsingError"
                THEN 500
                ELSE KindStatus(api_error))
        /\ ErrorBody

\* C34 witness: an error in converting the answer's JSON into an object has
\* been answered, with its detail as context.
C34_Witness ==
    /\ api_error.kind = "WrapperParsingError"
    /\ api_response.status = 500
    /\ <<"context", "b">> \in api_response.body

\* A day token in lower case, for the tokens bodies carry.
lower(token) ==
    CASE token \in {"M", "m"} -> "m"
      [] token \in {"Tu", "tu", "TU", "tU"} -> "tu"
      [] token \in {"W", "w"} -> "w"
      [] token \in {"Th", "th", "TH"} -> "th"
      [] token \in {"F", "f"} -> "f"
      [] token \in {"Sa", "sa", "SA"} -> "sa"
      [] token \in {"Su", "su", "sU"} -> "su"
      [] token = "Mo" -> "mo"
      [] OTHER -> token

\* The day a token selects when matched without regard to case ("none":
\* the token matches no day).
DayOf(token) ==
    CASE lower(token) = "m" -> "Monday"
      [] lower(token) = "tu" -> "Tuesday"
      [] lower(token) = "w" -> "Wednesday"
      [] lower(token) = "th" -> "Thursday"
      [] lower(token) = "f" -> "Friday"
      [] lower(token) = "sa" -> "Saturday"
      [] lower(token) = "su" -> "Sunday"
      [] OTHER -> "none"

\* C35: the days of the search made from a body are the days its tokens
\* select when matched case-insensitively against M, Tu, W, Th, F, Sa, Su;
\* a token that matches none of them adds nothing.
C35_DaysCaseInsensitive ==
    search_days.made =>
        search_days.days =
            {DayOf(body_days.d[i]) : i \in 1 .. Len(body_days.d)} \ {"none"}

\* C36: once stop_flag is set and shutdown_signal has found is_running
\* false, no step stores true into is_running and no worker is spawned.
C36_NoPhaseAfterShutdownSeen ==
    [][(stop_flag /\ spc = "done") =>
           /\ ~(~is_running /\ is_running')
           /\ \A t \in all_terms :
                  wpc[t] = "unspawned" => wpc'[t] = "unspawned"]_vars

\* C37: while Session Recovery is under way is_running is false and no
\* worker of any term exists; the steps in which the cookie server's
\* cookies are set on the polling wrapper and in which register_all_terms
\* answers begin and end in such a state, so the polling cookies change
\* only when no worker exists.
C37_RecoveryOutsidePhases ==
    /\ [](lpc # "idle" =>
              /\ ~is_running
              /\ tpc \in {"init_login", "relogin"}
              /\ \A t \in all_terms : wpc[t] = "unspawned")
    /\ [][(\/ CookieResponse("cookie")
           \/ \E ok \in BOOLEAN : RegisterResponse(ok)
           \/ cookies'.wrapper # cookies.wrapper) =>
              /\ ~is_running /\ ~is_running'
              /\ \A t \in all_terms : wpc[t] = "unspawned" /\ wpc'[t] = "unspawned"]_vars

\* C37 witness: in a Session Recovery that follows a phase in which both
\* workers wrote, register_all_terms has been called.
C37_Witness ==
    /\ tpc = "relogin"
    /\ lpc = "register"
    /\ csv["FA22"] /\ csv["WI23"]
    /\ ~is_running

\* C38: with every request and sleep completing, a try_login that has
\* started returns (or the process ends before it does).
C38_TryLoginReturns == (lpc # "idle") ~> (lpc = "idle" \/ exited)

\* The place of a layer in the order auth, readiness, term, cookie.
LayerRank(l) ==
    CASE l = "auth" -> 1
      [] l = "running" -> 2
      [] l = "term" -> 3
      [] l = "cookie" -> 4
      [] OTHER -> 5

\* C39: for a request to a route under /live/:term the layers that let it
\* through did so in the order auth, readiness, term, cookie; a layer that
\* answers comes after all of them and no handler has run; and, auth apart,
\* the answer is the one of the first layer in that order that rejects: 500
\* when the readiness layer finds is_running false, whatever the term; once
\* that layer has let the request through, 404 for an unknown term on a
\* term route whatever the Cookie header, and 400 for a missing or
\* non-ASCII Cookie header on a cookie route only with a known term.
C39_FirstRejectingLayerDecides ==
    /\ [](req.route \in webreg_router =>
             /\ \A i \in 1 .. Len(passed) : \A j \in 1 .. Len(passed) :
                    i < j => LayerRank(passed[i]) < LayerRank(passed[j])
             /\ resp.by \in {"auth", "running", "term", "cookie"} =>
                    /\ calls = <<>>
                    /\ \A i \in 1 .. Len(passed) :
                           LayerRank(passed[i]) < LayerRank(resp.by)
             /\ (rpc = "answered" /\ resp.by \notin {"auth", "running"}) =>
                    /\ InSeq("running", passed)
                    /\ IF req.route \in parsed_router
                          /\ ~contains_key(to_uppercase(req.term))
                       THEN resp.status = 404 /\ resp.by = "term"
                       ELSE IF req.route \in cookie_router /\ req.cookie # "ascii"
                       THEN resp.status = 400 /\ resp.by = "cookie"
                       ELSE resp.by \notin {"running", "term", "cookie"})
    /\ [][(req.route \in webreg_router /\ current_layer = "running"
           /\ (passed' # passed \/ rpc' = "answered")) =>
              IF is_running
              THEN passed' = Append(passed, "running") /\ rpc' # "answered"
              ELSE /\ rpc' = "answered"
                   /\ resp'.status = 500
                   /\ resp'.by = "running"]_vars

\* C39 witness: with is_running true, a request for a cookie route with an
\* unknown term and no Cookie header has been answered 404 by the term
\* layer.
C39_Witness ==
    /\ is_running
    /\ rpc = "answered"
    /\ req.route = "/schedule"
    /\ req.term = <<"x", "x", "9", "9">>
    /\ req.cookie = "absent"
    /\ resp.status = 404
    /\ resp.by = "term"
    /\ passed = <<"running">>

\* The request's Authorization header is "Bearer <p>#<k>", p ending at the
\* first '#', and check_key(p, k) is Valid.
CredentialValid ==
    LET h == req.authorization
        bearer == /\ h.kind = "text"
                  /\ Len(h.value) >= Len(Bearer)
                  /\ SubSeq(h.value, 1, Len(Bearer)) = Bearer
        t == SubSeq(h.value, Len(Bearer) + 1, Len(h.value))
        at == FirstHash(t)
        i == CHOOSE i \in at : TRUE
    IN /\ bearer
       /\ at # {}
       /\ check_key(db, now, SubSeq(t, 1, i - 1), SubSeq(t, i + 1, Len(t))) = "Valid"

\* C40: with the feature "auth", the first layer of every route is the auth
\* layer, and a request is at a handler, has had a portal or handler call
\* made for it, or has been answered by anything but the auth layer only
\* if its credential is valid; this holds for /health, /timing/:term and
\* /login_stat/:stat as for the routes under /live/:term.
C40_AuthWrapsEveryRoute ==
    auth_feature =>
        /\ \A route \in Routes :
               layers_of(route) # <<>> /\ Head(layers_of(route)) = "auth"
        /\ (\/ rpc \in {"handler", "get_schedule", "drop_section"}
            \/ calls # <<>>
            \/ resp.by \notin {"none", "auth"}) =>
               /\ CredentialValid
               /\ passed # <<>>
               /\ passed[1] = "auth"
        /\ (rpc = "answered" /\ ~CredentialValid) =>
               /\ resp.by = "auth"
               /\ resp.status = 401
               /\ calls = <<>>

\* C40 witness: with the feature "auth", a request for /health whose key
\* has expired has been answered 401 by the auth layer.
C40_Witness ==
    /\ auth_feature
    /\ req.route = "/health"
    /\ rpc = "answered"
    /\ resp.by = "auth"
    /\ resp.error = "Token is expired."
    /\ calls = <<>>

=============================================================================
